---- MODULE Spec2Model ----
(***************************************************************************)
(* Model of the booking API of my-free-table.                              *)
(*                                                                         *)
(* State: the `bookings` and `customers` tables of the database, the       *)
(* wall-clock day, and per client process the request in flight (the       *)
(* handler's position and its local variables) or the response it got.     *)
(* Restaurants, opening hours and tables are never written by the API and  *)
(* are fixed data.                                                         *)
(*                                                                         *)
(* Every `await db...` of a handler is a step of its own: two handlers     *)
(* interleave exactly at their database calls (D1 runs each statement on   *)
(* its own; the handlers open no transaction).                             *)
(*                                                                         *)
(* Dates "YYYY-MM-DD" are day numbers (GetDay(d) = d % 7, 0 = Sunday),     *)
(* times "HH:MM" are pairs <<hour, minute>>.  The clock is read in UTC, as *)
(* on the Workers runtime the handlers are deployed to.                    *)
(***************************************************************************)
EXTENDS Integers, Sequences, FiniteSets, TLC

VARIABLES bookings, customers, today, proc

vars == <<bookings, customers, today, proc>>

-----------------------------------------------------------------------------
(* Bounds of the model *)

\* at most this many booking rows are ever inserted
MaxBookings == 2

\* the clock advances by at most this many days
MaxTicks == 1

\* the client processes that issue requests
Procs == {1, 2}

\* the day the model starts on (a Monday)
FirstDay == 8

-----------------------------------------------------------------------------
(* Fixed data: restaurants, tables, opening hours *)

Restaurants == {1, 2}

TableRows ==
  << [id |-> 1, restaurantId |-> 1, capacity |-> 4, isActive |-> TRUE],
     [id |-> 2, restaurantId |-> 1, capacity |-> 6, isActive |-> TRUE],
     [id |-> 3, restaurantId |-> 1, capacity |-> 6, isActive |-> FALSE],
     [id |-> 4, restaurantId |-> 2, capacity |-> 4, isActive |-> TRUE] >>

OpeningHoursRows ==
  << [restaurantId |-> 1, dayOfWeek |-> 0, openTime |-> <<11, 0>>, closeTime |-> <<0, 0>>, isClosed |-> FALSE],
     [restaurantId |-> 1, dayOfWeek |-> 1, openTime |-> <<11, 0>>, closeTime |-> <<0, 0>>, isClosed |-> FALSE],
     [restaurantId |-> 1, dayOfWeek |-> 2, openTime |-> <<11, 0>>, closeTime |-> <<0, 0>>, isClosed |-> FALSE],
     [restaurantId |-> 1, dayOfWeek |-> 3, openTime |-> <<0, 0>>,  closeTime |-> <<0, 0>>, isClosed |-> TRUE],
     [restaurantId |-> 2, dayOfWeek |-> 1, openTime |-> <<11, 0>>, closeTime |-> <<22, 0>>, isClosed |-> FALSE],
     [restaurantId |-> 2, dayOfWeek |-> 2, openTime |-> <<11, 0>>, closeTime |-> <<22, 0>>, isClosed |-> FALSE] >>

\* restaurant.tables of the `with: {tables: true}` query
TablesOf(restaurantId) ==
  SelectSeq(TableRows, LAMBDA t : t.restaurantId = restaurantId)

\* restaurant.openingHours of the `with: {openingHours: true}` query
OpeningHoursOf(restaurantId) ==
  SelectSeq(OpeningHoursRows, LAMBDA h : h.restaurantId = restaurantId)

\* what find() and findFirst() give when nothing matches (undefined)
NoRow == [id |-> 0]

\* Array.prototype.find: the first element of the list, or undefined
FirstOf(hits) == IF hits = <<>> THEN NoRow ELSE Head(hits)

\* the lookup of the table among the tables of every restaurant
FindTableAnyRestaurant(restaurantId, tableId) ==
  FirstOf(SelectSeq(TableRows, LAMBDA t : t.id = tableId))

\* restaurant.tables.find((t) => t.id === tableId)
FindTable(restaurantId, tableId) ==
  FirstOf(SelectSeq(TablesOf(restaurantId), LAMBDA t : t.id = tableId))

\* the lookup of the opening hours without the test on the day of week
FindHoursAnyDay(restaurantId, dayOfWeek) ==
  FirstOf(OpeningHoursOf(restaurantId))

\* restaurant.openingHours.find((h) => h.dayOfWeek === dayOfWeek)
FindHours(restaurantId, dayOfWeek) ==
  FirstOf(SelectSeq(OpeningHoursOf(restaurantId), LAMBDA h : h.dayOfWeek = dayOfWeek))

\* the table row a booking's tableId refers to
TableById(tableId) ==
  FirstOf(SelectSeq(TableRows, LAMBDA t : t.id = tableId))

-----------------------------------------------------------------------------
(* Time and calendar *)

\* bookingDateObj.getDay()
GetDay(date) == date % 7

\* hour * 60 + minute of a split "HH:MM"
ToMinutes(t) == t[1] * 60 + t[2]

\* closeMinutes without the special case for midnight
CloseMinutesNoMidnight(closeTime) == ToMinutes(closeTime)

\* closeHour === 0 && closeMinute === 0 ? 1440 : closeHour * 60 + closeMinute
CloseMinutes(closeTime) ==
  IF closeTime[1] = 0 /\ closeTime[2] = 0 THEN 1440 ELSE ToMinutes(closeTime)

\* bookingMinutes < openMinutes || bookingMinutes > closeMinutes - 60
OutsideHours(time, hours) ==
  \/ ToMinutes(time) < ToMinutes(hours.openTime)
  \/ ToMinutes(time) > CloseMinutes(hours.closeTime) - 60

\* the past-date test taking today for past
IsPastDateInclusive(date, now) == date <= now

\* bookingDateObj < today (today at 00:00)
IsPastDate(date, now) == date < now

HorizonDays == 90

MinutesPerDay == 24 * 60

\* the minute of the day at which `new Date()` is read
TimesOfDay == {0, 12 * 60, MinutesPerDay - 1}

\* the horizon test with >= for >: the 90th day is refused at 00:00
BeyondHorizonInclusive(date, now, tod) ==
  date * MinutesPerDay >= (now + HorizonDays) * MinutesPerDay + tod

\* bookingDateObj > maxDate: new Date(bookingDate) is the date at 00:00, and
\* maxDate = new Date() moved on by 90 days keeps its time of day
BeyondHorizon(date, now, tod) ==
  date * MinutesPerDay > (now + HorizonDays) * MinutesPerDay + tod

MinPartySize == 1
MaxPartySize == 20

\* the range test without its upper bound
BadPartySizeNoUpperBound(partySize) == partySize < MinPartySize

\* partySize < 1 || partySize > 20
BadPartySize(partySize) == partySize < MinPartySize \/ partySize > MaxPartySize

\* /^[^\s@]+@[^\s@]+\.[^\s@]+$/.test(email), on the addresses the clients send
EmailRegexTest(email) == email \in {"a@x.io", "b@x.io"}

-----------------------------------------------------------------------------
(* Responses *)

Resp(code, error) ==
  [code |-> code, error |-> error, ids |-> {}, bookingId |-> 0, info |-> 0]

NoResponse == Resp(0, "")

Pass == Resp(0, "pass")

Idle == [pc |-> "idle"]

-----------------------------------------------------------------------------
(* Queries *)

SeqToSet(seq) == {seq[i] : i \in 1..Len(seq)}

\* db.query.customers.findFirst({where: eq(customers.email, email)})
CustomerByEmail(email) ==
  FirstOf(SelectSeq(customers, LAMBDA c : c.email = email))

\* the confirmed bookings of a customer at a restaurant on a date
CustomerDayBookings(customerId, restaurantId, date) ==
  {b \in SeqToSet(bookings) :
     /\ b.customerId = customerId
     /\ b.restaurantId = restaurantId
     /\ b.bookingDate = date
     /\ b.status = "confirmed"}

\* the bookings on a slot, whatever their status
SlotBookingsAnyStatus(tableId, date, time) ==
  {b \in SeqToSet(bookings) :
     /\ b.tableId = tableId
     /\ b.bookingDate = date
     /\ b.bookingTime = time}

\* the confirmed bookings on a slot
SlotBookings(tableId, date, time) ==
  {b \in SeqToSet(bookings) :
     /\ b.tableId = tableId
     /\ b.bookingDate = date
     /\ b.bookingTime = time
     /\ b.status = "confirmed"}

-----------------------------------------------------------------------------
(* POST /api/bookings *)

\* the checks of POST with the party size rule after the two date rules
PostChecksDatesFirst(b, now, tod) ==
  IF \/ b.restaurantId = 0 \/ b.tableId = 0 \/ b.customerName = ""
     \/ b.customerEmail = "" \/ b.customerPhone = "" \/ b.bookingDate = 0
     \/ b.bookingTime = <<>> \/ b.partySize = 0
  THEN Resp(400, "Missing required fields")
  ELSE IF ~EmailRegexTest(b.customerEmail)
  THEN Resp(400, "Invalid email address")
  ELSE IF IsPastDate(b.bookingDate, now)
  THEN Resp(400, "Cannot book in the past")
  ELSE IF BeyondHorizon(b.bookingDate, now, tod)
  THEN Resp(400, "Cannot book more than 90 days in advance")
  ELSE IF BadPartySize(b.partySize)
  THEN Resp(400, "Party size must be between 1 and 20")
  ELSE IF b.restaurantId \notin Restaurants
  THEN Resp(404, "Restaurant not found")
  ELSE
    LET hoursForDay == FindHours(b.restaurantId, GetDay(b.bookingDate))
        table == FindTable(b.restaurantId, b.tableId)
    IN IF hoursForDay = NoRow \/ hoursForDay.isClosed
       THEN Resp(400, "Restaurant is closed on this day")
       ELSE IF OutsideHours(b.bookingTime, hoursForDay)
       THEN [Resp(400, "Restaurant hours") EXCEPT
               !.info = <<hoursForDay.openTime, hoursForDay.closeTime>>]
       ELSE IF table = NoRow
       THEN Resp(404, "Table not found")
       ELSE IF ~table.isActive
       THEN Resp(400, "Table is not available")
       ELSE IF b.partySize > table.capacity
       THEN [Resp(400, "Party size exceeds table capacity") EXCEPT
               !.info = table.capacity]
       ELSE Pass

\* the checks of POST with the capacity reason naming the party size asked for
\* as the maximum
PostChecksNamesPartySize(b, now, tod) ==
  IF \/ b.restaurantId = 0 \/ b.tableId = 0 \/ b.customerName = ""
     \/ b.customerEmail = "" \/ b.customerPhone = "" \/ b.bookingDate = 0
     \/ b.bookingTime = <<>> \/ b.partySize = 0
  THEN Resp(400, "Missing required fields")
  ELSE IF ~EmailRegexTest(b.customerEmail)
  THEN Resp(400, "Invalid email address")
  ELSE IF BadPartySize(b.partySize)
  THEN Resp(400, "Party size must be between 1 and 20")
  ELSE IF IsPastDate(b.bookingDate, now)
  THEN Resp(400, "Cannot book in the past")
  ELSE IF BeyondHorizon(b.bookingDate, now, tod)
  THEN Resp(400, "Cannot book more than 90 days in advance")
  ELSE IF b.restaurantId \notin Restaurants
  THEN Resp(404, "Restaurant not found")
  ELSE
    LET hoursForDay == FindHours(b.restaurantId, GetDay(b.bookingDate))
        table == FindTable(b.restaurantId, b.tableId)
    IN IF hoursForDay = NoRow \/ hoursForDay.isClosed
       THEN Resp(400, "Restaurant is closed on this day")
       ELSE IF OutsideHours(b.bookingTime, hoursForDay)
       THEN [Resp(400, "Restaurant hours") EXCEPT
               !.info = <<hoursForDay.openTime, hoursForDay.closeTime>>]
       ELSE IF table = NoRow
       THEN Resp(404, "Table not found")
       ELSE IF ~table.isActive
       THEN Resp(400, "Table is not available")
       ELSE IF b.partySize > table.capacity
       THEN [Resp(400, "Party size exceeds table capacity") EXCEPT
               !.info = b.partySize]
       ELSE Pass

\* the checks of POST before its first write, in the order of the code
PostChecks(b, now, tod) ==
  IF \/ b.restaurantId = 0 \/ b.tableId = 0 \/ b.customerName = ""
     \/ b.customerEmail = "" \/ b.customerPhone = "" \/ b.bookingDate = 0
     \/ b.bookingTime = <<>> \/ b.partySize = 0
  THEN Resp(400, "Missing required fields")
  ELSE IF ~EmailRegexTest(b.customerEmail)
  THEN Resp(400, "Invalid email address")
  ELSE IF BadPartySize(b.partySize)
  THEN Resp(400, "Party size must be between 1 and 20")
  ELSE IF IsPastDate(b.bookingDate, now)
  THEN Resp(400, "Cannot book in the past")
  ELSE IF BeyondHorizon(b.bookingDate, now, tod)
  THEN Resp(400, "Cannot book more than 90 days in advance")
  ELSE IF b.restaurantId \notin Restaurants
  THEN Resp(404, "Restaurant not found")
  ELSE
    LET hoursForDay == FindHours(b.restaurantId, GetDay(b.bookingDate))
        table == FindTable(b.restaurantId, b.tableId)
    IN IF hoursForDay = NoRow \/ hoursForDay.isClosed
       THEN Resp(400, "Restaurant is closed on this day")
       ELSE IF OutsideHours(b.bookingTime, hoursForDay)
       THEN [Resp(400, "Restaurant hours") EXCEPT
               !.info = <<hoursForDay.openTime, hoursForDay.closeTime>>]
       ELSE IF table = NoRow
       THEN Resp(404, "Table not found")
       ELSE IF ~table.isActive
       THEN Resp(400, "Table is not available")
       ELSE IF b.partySize > table.capacity
       THEN [Resp(400, "Party size exceeds table capacity") EXCEPT
               !.info = table.capacity]
       ELSE Pass

\* the response of the handler's catch block
PostFailed == Resp(500, "Failed to create booking")

\* the handler returns response r to request req: the client holds it until
\* it sends its next request
Finish(p, op, req, r) ==
  proc' = [proc EXCEPT ![p] = [pc |-> "done", op |-> op, req |-> req, resp |-> r]]

\* POST with the customer found or inserted before the availability checks
PostBeginCustomerFirst(p, b) ==
  /\ proc[p] = Idle
  /\ \E tod \in TimesOfDay :
     LET r == PostChecks(b, today, tod)
     IN IF r # Pass
        THEN /\ Finish(p, "POST", b, r)
             /\ customers' =
                  IF \/ r.error \in {"Missing required fields", "Invalid email address"}
                     \/ CustomerByEmail(b.customerEmail) # NoRow
                  THEN customers
                  ELSE Append(customers,
                         [id |-> Len(customers) + 1, name |-> b.customerName,
                          email |-> b.customerEmail, phone |-> b.customerPhone])
        ELSE /\ Len(bookings)
                  + Cardinality({q \in DOMAIN proc : proc[q].pc \in
                       {"post_findCustomer", "post_insertCustomer",
                        "post_customerDay", "post_slot", "post_insert"}})
                  < MaxBookings
             /\ proc' = [proc EXCEPT ![p] =
                   [pc |-> "post_findCustomer", body |-> b, customerId |-> 0]]
             /\ UNCHANGED customers
  /\ UNCHANGED <<bookings, today>>

\* POST up to its first query on customers (lines 23-154)
PostBegin(p, b) ==
  /\ proc[p] = Idle
  /\ \E tod \in TimesOfDay :
     LET r == PostChecks(b, today, tod)
     IN IF r # Pass
        THEN /\ Finish(p, "POST", b, r)
        ELSE /\ Len(bookings)
                  + Cardinality({q \in DOMAIN proc : proc[q].pc \in
                       {"post_findCustomer", "post_insertCustomer",
                        "post_customerDay", "post_slot", "post_insert"}})
                  < MaxBookings
             /\ proc' = [proc EXCEPT ![p] =
                   [pc |-> "post_findCustomer", body |-> b, customerId |-> 0]]
  /\ UNCHANGED <<bookings, customers, today>>

\* customers.findFirst by email (lines 157-161)
PostFindCustomer(p) ==
  /\ proc[p].pc = "post_findCustomer"
  /\ LET customer == CustomerByEmail(proc[p].body.customerEmail)
     IN proc' = [proc EXCEPT ![p] =
          IF customer = NoRow
          THEN [@ EXCEPT !.pc = "post_insertCustomer"]
          ELSE [@ EXCEPT !.pc = "post_customerDay", !.customerId = customer.id]]
  /\ UNCHANGED <<bookings, customers, today>>

\* the insert into customers on a table without the unique index on email
PostInsertCustomerNoIndex(p) ==
  /\ proc[p].pc = "post_insertCustomer"
  /\ LET b == proc[p].body
     IN /\ customers' = Append(customers,
              [id |-> Len(customers) + 1, name |-> b.customerName,
               email |-> b.customerEmail, phone |-> b.customerPhone])
        /\ proc' = [proc EXCEPT ![p] =
              [@ EXCEPT !.pc = "post_customerDay",
                        !.customerId = Len(customers) + 1]]
  /\ UNCHANGED <<bookings, today>>

\* insert into customers (lines 162-170); the unique index on email makes
\* the insert throw when the email was inserted in between
PostInsertCustomer(p) ==
  /\ proc[p].pc = "post_insertCustomer"
  /\ LET b == proc[p].body
     IN IF CustomerByEmail(b.customerEmail) # NoRow
        THEN /\ Finish(p, "POST", b, PostFailed)
             /\ UNCHANGED customers
        ELSE /\ customers' = Append(customers,
                   [id |-> Len(customers) + 1, name |-> b.customerName,
                    email |-> b.customerEmail, phone |-> b.customerPhone])
             /\ proc' = [proc EXCEPT ![p] =
                   [@ EXCEPT !.pc = "post_customerDay",
                             !.customerId = Len(customers) + 1]]
  /\ UNCHANGED <<bookings, today>>

\* the customer's confirmed booking at the restaurant that day (lines 173-188)
PostCustomerDay(p) ==
  /\ proc[p].pc = "post_customerDay"
  /\ LET b == proc[p].body
     IN IF CustomerDayBookings(proc[p].customerId, b.restaurantId, b.bookingDate) # {}
        THEN /\ Finish(p, "POST", b,
                   Resp(409, "You already have a booking at this restaurant on this date"))
        ELSE /\ proc' = [proc EXCEPT ![p] = [@ EXCEPT !.pc = "post_slot"]]
  /\ UNCHANGED <<bookings, customers, today>>

\* the slot query placed after the insert: the booking is written, then the
\* conflict is answered
PostSlotAfterInsert(p) ==
  /\ proc[p].pc = "post_slot"
  /\ LET b == proc[p].body
     IN IF SlotBookings(b.tableId, b.bookingDate, b.bookingTime) # {}
        THEN /\ bookings' = Append(bookings,
                   [id |-> Len(bookings) + 1, restaurantId |-> b.restaurantId,
                    tableId |-> b.tableId, customerId |-> proc[p].customerId,
                    bookingDate |-> b.bookingDate, bookingTime |-> b.bookingTime,
                    partySize |-> b.partySize,
                    specialRequests |-> b.specialRequests, status |-> "confirmed"])
             /\ Finish(p, "POST", b,
                   Resp(409, "This table is already booked at this time"))
        ELSE /\ proc' = [proc EXCEPT ![p] = [@ EXCEPT !.pc = "post_insert"]]
             /\ UNCHANGED bookings
  /\ UNCHANGED <<customers, today>>

\* the confirmed booking on the slot (lines 190-205)
PostSlot(p) ==
  /\ proc[p].pc = "post_slot"
  /\ LET b == proc[p].body
     IN IF SlotBookings(b.tableId, b.bookingDate, b.bookingTime) # {}
        THEN /\ Finish(p, "POST", b,
                   Resp(409, "This table is already booked at this time"))
        ELSE /\ proc' = [proc EXCEPT ![p] = [@ EXCEPT !.pc = "post_insert"]]
  /\ UNCHANGED <<bookings, customers, today>>

\* specialRequests || null
OrNull(s) == IF s = "" THEN "NULL" ELSE s

\* the insert with status "pending" for "confirmed"
PostInsertPending(p) ==
  /\ proc[p].pc = "post_insert"
  /\ LET b == proc[p].body
         id == Len(bookings) + 1
     IN /\ bookings' = Append(bookings,
              [id |-> id, restaurantId |-> b.restaurantId, tableId |-> b.tableId,
               customerId |-> proc[p].customerId, bookingDate |-> b.bookingDate,
               bookingTime |-> b.bookingTime, partySize |-> b.partySize,
               specialRequests |-> OrNull(b.specialRequests),
               status |-> "pending"])
        /\ Finish(p, "POST", b, [Resp(201, "") EXCEPT !.bookingId = id])
  /\ UNCHANGED <<customers, today>>

\* insert into bookings (lines 207-222)
PostInsert(p) ==
  /\ proc[p].pc = "post_insert"
  /\ LET b == proc[p].body
         id == Len(bookings) + 1
     IN /\ bookings' = Append(bookings,
              [id |-> id, restaurantId |-> b.restaurantId, tableId |-> b.tableId,
               customerId |-> proc[p].customerId, bookingDate |-> b.bookingDate,
               bookingTime |-> b.bookingTime, partySize |-> b.partySize,
               specialRequests |-> OrNull(b.specialRequests),
               status |-> "confirmed"])
        /\ Finish(p, "POST", b, [Resp(201, "") EXCEPT !.bookingId = id])
  /\ UNCHANGED <<customers, today>>

-----------------------------------------------------------------------------
(* PUT /api/bookings/[id] *)

\* db.query.bookings.findFirst({where: eq(bookings.id, id)})
BookingById(id) ==
  FirstOf(SelectSeq(bookings, LAMBDA b : b.id = id))

\* a field of the body that is present and truthy (`if (customerName)`)
Given(b, f) ==
  /\ f \in b.has
  /\ CASE f \in {"customerName", "customerEmail", "customerPhone", "specialRequests"}
            -> b[f] # ""
       [] f = "bookingTime" -> b[f] # <<>>
       [] OTHER -> b[f] # 0

\* the checks on the customer fields (lines 126-158)
PutCustomerChecks(b) ==
  IF Given(b, "customerName") /\ Len(b.customerName) < 2
  THEN Resp(400, "Name must be at least 2 characters")
  ELSE IF Given(b, "customerEmail") /\ ~EmailRegexTest(b.customerEmail)
  THEN Resp(400, "Invalid email address")
  ELSE IF Given(b, "customerPhone") /\ Len(b.customerPhone) < 10
  THEN Resp(400, "Phone number must be at least 10 characters")
  ELSE Pass

NoUpdate ==
  [has |-> {}, bookingDate |-> 0, bookingTime |-> <<>>, partySize |-> 0,
   tableId |-> 0, specialRequests |-> ""]

\* the date and time section (lines 168-229): a response, or Pass
PutDateTimeChecks(existing, b, now, tod) ==
  IF ~(Given(b, "bookingDate") \/ Given(b, "bookingTime"))
  THEN Pass
  ELSE
    LET newDate == IF Given(b, "bookingDate") THEN b.bookingDate ELSE existing.bookingDate
        newTime == IF Given(b, "bookingTime") THEN b.bookingTime ELSE existing.bookingTime
        hoursForDay == FindHours(existing.restaurantId, GetDay(newDate))
    IN IF IsPastDate(newDate, now)
       THEN Resp(400, "Cannot book in the past")
       ELSE IF BeyondHorizon(newDate, now, tod)
       THEN Resp(400, "Cannot book more than 90 days in advance")
       ELSE IF hoursForDay = NoRow \/ hoursForDay.isClosed
       THEN Resp(400, "Restaurant is closed on this day")
       ELSE IF OutsideHours(newTime, hoursForDay)
       THEN [Resp(400, "Restaurant hours") EXCEPT
               !.info = <<hoursForDay.openTime, hoursForDay.closeTime>>]
       ELSE Pass

\* the party size section (lines 231-240)
PutPartySizeChecks(b) ==
  IF "partySize" \in b.has /\ BadPartySize(b.partySize)
  THEN Resp(400, "Party size must be between 1 and 20")
  ELSE Pass

\* the table section without its test of table.isActive
PutTableChecksNoActiveTest(existing, b) ==
  IF "tableId" \notin b.has
  THEN Pass
  ELSE
    LET table == FindTable(existing.restaurantId, b.tableId)
        finalPartySize == IF Given(b, "partySize") THEN b.partySize
                          ELSE existing.partySize
    IN IF table = NoRow
       THEN Resp(404, "Table not found")
       ELSE IF finalPartySize > table.capacity
       THEN [Resp(400, "Party size exceeds table capacity") EXCEPT
               !.info = table.capacity]
       ELSE Pass

\* the table section (lines 242-268)
PutTableChecks(existing, b) ==
  IF "tableId" \notin b.has
  THEN Pass
  ELSE
    LET table == FindTable(existing.restaurantId, b.tableId)
        finalPartySize == IF Given(b, "partySize") THEN b.partySize
                          ELSE existing.partySize
    IN IF table = NoRow
       THEN Resp(404, "Table not found")
       ELSE IF ~table.isActive
       THEN Resp(400, "Table is not available")
       ELSE IF finalPartySize > table.capacity
       THEN [Resp(400, "Party size exceeds table capacity") EXCEPT
               !.info = table.capacity]
       ELSE Pass

\* the first failing section of lines 167-268, or Pass
PutChecks(existing, b, now, tod) ==
  IF PutDateTimeChecks(existing, b, now, tod) # Pass
  THEN PutDateTimeChecks(existing, b, now, tod)
  ELSE IF PutPartySizeChecks(b) # Pass
  THEN PutPartySizeChecks(b)
  ELSE PutTableChecks(existing, b)

\* updateData as lines 227-228, 239, 267 and 296-299 fill it
PutUpdateData(existing, b) ==
  LET dt == Given(b, "bookingDate") \/ Given(b, "bookingTime")
  IN [has |-> (IF dt THEN {"bookingDate", "bookingTime"} ELSE {})
                \cup (b.has \cap {"partySize", "tableId", "specialRequests"}),
      bookingDate |-> IF Given(b, "bookingDate") THEN b.bookingDate
                      ELSE IF dt THEN existing.bookingDate ELSE 0,
      bookingTime |-> IF Given(b, "bookingTime") THEN b.bookingTime
                      ELSE IF dt THEN existing.bookingTime ELSE <<>>,
      partySize |-> IF "partySize" \in b.has THEN b.partySize ELSE 0,
      tableId |-> IF "tableId" \in b.has THEN b.tableId ELSE 0,
      specialRequests |-> IF "specialRequests" \in b.has
                          THEN OrNull(b.specialRequests) ELSE ""]

\* the condition of the conflict query without updateData.tableId
PutNeedsConflictCheckNoTable(u) ==
  \/ "bookingDate" \in u.has /\ u.bookingDate # 0
  \/ "bookingTime" \in u.has /\ u.bookingTime # <<>>

\* updateData.bookingDate || updateData.bookingTime || updateData.tableId
PutNeedsConflictCheck(u) ==
  \/ "bookingDate" \in u.has /\ u.bookingDate # 0
  \/ "bookingTime" \in u.has /\ u.bookingTime # <<>>
  \/ "tableId" \in u.has /\ u.tableId # 0

\* the response of the handler's catch block
PutFailed == Resp(500, "Failed to update booking")

\* lines 167-299 after the customer section: reject, or go on to the conflict
\* query or to the write
PutAfterCustomer(p, id, b, existing) ==
  \E tod \in TimesOfDay :
  LET r == PutChecks(existing, b, today, tod)
      u == PutUpdateData(existing, b)
  IN IF r # Pass
     THEN /\ Finish(p, "PUT", [id |-> id, body |-> b], r)
     ELSE /\ proc' = [proc EXCEPT ![p] =
                [pc |-> IF PutNeedsConflictCheck(u) THEN "put_conflict" ELSE "put_write",
                 id |-> id, body |-> b, existing |-> existing, updateData |-> u]]

\* PUT without its test for a cancelled booking (lines 114-120 left out)
PutBeginNoCancelledCheck(p, id, b) ==
  /\ proc[p] = Idle
  /\ LET existing == BookingById(id)
         req == [id |-> id, body |-> b]
     IN IF existing = NoRow
        THEN /\ Finish(p, "PUT", req, Resp(404, "Booking not found"))
        ELSE IF PutCustomerChecks(b) # Pass
        THEN /\ Finish(p, "PUT", req, PutCustomerChecks(b))
        ELSE IF \/ Given(b, "customerName") \/ Given(b, "customerEmail")
                \/ Given(b, "customerPhone")
        THEN /\ proc' = [proc EXCEPT ![p] =
                   [pc |-> "put_customer", id |-> id, body |-> b,
                    existing |-> existing, updateData |-> NoUpdate]]
        ELSE PutAfterCustomer(p, id, b, existing)
  /\ UNCHANGED <<bookings, customers, today>>

\* PUT up to its first statement after the load of the booking (lines 71-165)
PutBegin(p, id, b) ==
  /\ proc[p] = Idle
  /\ LET existing == BookingById(id)
         req == [id |-> id, body |-> b]
     IN IF existing = NoRow
        THEN /\ Finish(p, "PUT", req, Resp(404, "Booking not found"))
        ELSE IF existing.status = "cancelled"
        THEN /\ Finish(p, "PUT", req, Resp(400, "Cannot modify cancelled booking"))
        ELSE IF PutCustomerChecks(b) # Pass
        THEN /\ Finish(p, "PUT", req, PutCustomerChecks(b))
        ELSE IF \/ Given(b, "customerName") \/ Given(b, "customerEmail")
                \/ Given(b, "customerPhone")
        THEN /\ proc' = [proc EXCEPT ![p] =
                   [pc |-> "put_customer", id |-> id, body |-> b,
                    existing |-> existing, updateData |-> NoUpdate]]
        ELSE PutAfterCustomer(p, id, b, existing)
  /\ UNCHANGED <<bookings, customers, today>>

\* update customers set ... where id = existingBooking.customerId (lines 160-164);
\* the unique index on email makes the update throw on a taken email
PutUpdateCustomer(p) ==
  /\ proc[p].pc = "put_customer"
  /\ LET b == proc[p].body
         cid == proc[p].existing.customerId
     IN IF /\ Given(b, "customerEmail")
           /\ \E c \in SeqToSet(customers) : c.id # cid /\ c.email = b.customerEmail
        THEN /\ Finish(p, "PUT", [id |-> proc[p].id, body |-> b], PutFailed)
             /\ UNCHANGED customers
        ELSE /\ customers' = [customers EXCEPT ![cid] =
                   [id |-> @.id,
                    name |-> IF Given(b, "customerName") THEN b.customerName ELSE @.name,
                    email |-> IF Given(b, "customerEmail") THEN b.customerEmail ELSE @.email,
                    phone |-> IF Given(b, "customerPhone") THEN b.customerPhone ELSE @.phone]]
             /\ PutAfterCustomer(p, proc[p].id, b, proc[p].existing)
  /\ UNCHANGED <<bookings, today>>

\* the conflict query without the test that leaves out the booking itself
PutConflictCountsItself(p) ==
  /\ proc[p].pc = "put_conflict"
  /\ LET u == proc[p].updateData
         e == proc[p].existing
         checkDate == IF "bookingDate" \in u.has /\ u.bookingDate # 0
                      THEN u.bookingDate ELSE e.bookingDate
         checkTime == IF "bookingTime" \in u.has /\ u.bookingTime # <<>>
                      THEN u.bookingTime ELSE e.bookingTime
         checkTableId == IF "tableId" \in u.has /\ u.tableId # 0
                         THEN u.tableId ELSE e.tableId
     IN IF SlotBookings(checkTableId, checkDate, checkTime) # {}
        THEN /\ Finish(p, "PUT", [id |-> proc[p].id, body |-> proc[p].body],
                   Resp(409, "This table is already booked at this time"))
        ELSE /\ proc' = [proc EXCEPT ![p] = [@ EXCEPT !.pc = "put_write"]]
  /\ UNCHANGED <<bookings, customers, today>>

\* the conflict query and its test (lines 270-294); findFirst gives the first
\* matching row in rowid order
PutConflict(p) ==
  /\ proc[p].pc = "put_conflict"
  /\ LET u == proc[p].updateData
         e == proc[p].existing
         checkDate == IF "bookingDate" \in u.has /\ u.bookingDate # 0
                      THEN u.bookingDate ELSE e.bookingDate
         checkTime == IF "bookingTime" \in u.has /\ u.bookingTime # <<>>
                      THEN u.bookingTime ELSE e.bookingTime
         checkTableId == IF "tableId" \in u.has /\ u.tableId # 0
                         THEN u.tableId ELSE e.tableId
         conflictingBooking ==
           FirstOf(SelectSeq(bookings,
             LAMBDA x : x \in SlotBookings(checkTableId, checkDate, checkTime)))
     IN IF conflictingBooking # NoRow /\ conflictingBooking.id # proc[p].id
        THEN /\ Finish(p, "PUT", [id |-> proc[p].id, body |-> proc[p].body],
                   Resp(409, "This table is already booked at this time"))
        ELSE /\ proc' = [proc EXCEPT ![p] = [@ EXCEPT !.pc = "put_write"]]
  /\ UNCHANGED <<bookings, customers, today>>

\* .set() writing every column of updateData, filled or not
ApplyUpdateEveryColumn(row, u) ==
  [id |-> row.id, restaurantId |-> row.restaurantId, customerId |-> row.customerId,
   status |-> row.status,
   bookingDate |-> u.bookingDate, bookingTime |-> u.bookingTime,
   partySize |-> u.partySize, tableId |-> u.tableId,
   specialRequests |-> u.specialRequests]

\* .set() that also sets the status back to confirmed
ApplyUpdateConfirming(row, u) ==
  [id |-> row.id, restaurantId |-> row.restaurantId, customerId |-> row.customerId,
   status |-> "confirmed",
   bookingDate |-> IF "bookingDate" \in u.has THEN u.bookingDate ELSE row.bookingDate,
   bookingTime |-> IF "bookingTime" \in u.has THEN u.bookingTime ELSE row.bookingTime,
   partySize |-> IF "partySize" \in u.has THEN u.partySize ELSE row.partySize,
   tableId |-> IF "tableId" \in u.has THEN u.tableId ELSE row.tableId,
   specialRequests |-> IF "specialRequests" \in u.has THEN u.specialRequests
                       ELSE row.specialRequests]

\* .set(updateData) on a row
ApplyUpdate(row, u) ==
  [id |-> row.id, restaurantId |-> row.restaurantId, customerId |-> row.customerId,
   status |-> row.status,
   bookingDate |-> IF "bookingDate" \in u.has THEN u.bookingDate ELSE row.bookingDate,
   bookingTime |-> IF "bookingTime" \in u.has THEN u.bookingTime ELSE row.bookingTime,
   partySize |-> IF "partySize" \in u.has THEN u.partySize ELSE row.partySize,
   tableId |-> IF "tableId" \in u.has THEN u.tableId ELSE row.tableId,
   specialRequests |-> IF "specialRequests" \in u.has THEN u.specialRequests
                       ELSE row.specialRequests]

\* update bookings set updateData where id (lines 301-308); drizzle's set()
\* throws on an update with no values
PutWrite(p) ==
  /\ proc[p].pc = "put_write"
  /\ LET id == proc[p].id
         u == proc[p].updateData
         req == [id |-> id, body |-> proc[p].body]
     IN IF u.has = {}
        THEN /\ Finish(p, "PUT", req, PutFailed)
             /\ UNCHANGED bookings
        ELSE /\ bookings' = [bookings EXCEPT ![id] = ApplyUpdate(@, u)]
             /\ Finish(p, "PUT", req, [Resp(200, "") EXCEPT !.bookingId = id])
  /\ UNCHANGED <<customers, today>>

-----------------------------------------------------------------------------
(* DELETE /api/bookings/[id] *)

\* DELETE without its past-date rule (lines 357-367 left out)
DeleteBeginNoPastCheck(p, id) ==
  /\ proc[p] = Idle
  /\ LET existing == BookingById(id)
         req == [id |-> id]
     IN IF existing = NoRow
        THEN /\ Finish(p, "DELETE", req, Resp(404, "Booking not found"))
        ELSE IF existing.status = "cancelled"
        THEN /\ Finish(p, "DELETE", req, Resp(400, "Booking is already cancelled"))
        ELSE /\ proc' = [proc EXCEPT ![p] = [pc |-> "delete_write", id |-> id]]
  /\ UNCHANGED <<bookings, customers, today>>

\* DELETE up to its write (lines 326-367)
DeleteBegin(p, id) ==
  /\ proc[p] = Idle
  /\ LET existing == BookingById(id)
         req == [id |-> id]
     IN IF existing = NoRow
        THEN /\ Finish(p, "DELETE", req, Resp(404, "Booking not found"))
        ELSE IF existing.status = "cancelled"
        THEN /\ Finish(p, "DELETE", req, Resp(400, "Booking is already cancelled"))
        ELSE IF IsPastDate(existing.bookingDate, today)
        THEN /\ Finish(p, "DELETE", req, Resp(400, "Cannot cancel past bookings"))
        ELSE /\ proc' = [proc EXCEPT ![p] = [pc |-> "delete_write", id |-> id]]
  /\ UNCHANGED <<bookings, customers, today>>

\* update bookings set status = 'cancelled' where id (lines 369-379)
DeleteWrite(p) ==
  /\ proc[p].pc = "delete_write"
  /\ LET id == proc[p].id
     IN /\ bookings' = [bookings EXCEPT ![id].status = "cancelled"]
        /\ Finish(p, "DELETE", [id |-> id],
                         [Resp(200, "Booking cancelled successfully") EXCEPT !.bookingId = id])
  /\ UNCHANGED <<customers, today>>

-----------------------------------------------------------------------------
(* PATCH /api/bookings/[id]/status *)

validStatuses == {"confirmed", "cancelled", "completed", "no_show"}

\* the status rule refusing every request on a cancelled or completed booking
InvalidStatusChangeAnyStatus(booking, status) ==
  booking.status \in {"cancelled", "completed"}

\* the business rules of a status change on one booking (lines 53-66, 179-183)
InvalidStatusChange(booking, status) ==
  \/ booking.status = "cancelled" /\ status # "cancelled"
  \/ booking.status = "completed" /\ status # "completed"

\* PATCH without the validation of the status it is given
PatchBeginNoStatusTest(p, id, status) ==
  /\ proc[p] = Idle
  /\ LET existing == BookingById(id)
         req == [id |-> id, status |-> status]
     IN IF existing = NoRow
        THEN /\ Finish(p, "PATCH", req, Resp(404, "Booking not found"))
        ELSE IF existing.status = "cancelled" /\ status # "cancelled"
        THEN /\ Finish(p, "PATCH", req,
                              Resp(400, "Cannot change status of cancelled booking"))
        ELSE IF existing.status = "completed" /\ status # "completed"
        THEN /\ Finish(p, "PATCH", req,
                              Resp(400, "Cannot change status of completed booking"))
        ELSE IF status = "cancelled" /\ IsPastDate(existing.bookingDate, today)
        THEN /\ Finish(p, "PATCH", req, Resp(400, "Cannot cancel past bookings"))
        ELSE /\ proc' = [proc EXCEPT ![p] =
                   [pc |-> "patch_write", id |-> id, status |-> status]]
  /\ UNCHANGED <<bookings, customers, today>>

\* PATCH up to its write (lines 18-80)
PatchBegin(p, id, status) ==
  /\ proc[p] = Idle
  /\ LET existing == BookingById(id)
         req == [id |-> id, status |-> status]
     IN IF status = "" \/ status \notin validStatuses
        THEN /\ Finish(p, "PATCH", req, Resp(400, "Invalid status"))
        ELSE IF existing = NoRow
        THEN /\ Finish(p, "PATCH", req, Resp(404, "Booking not found"))
        ELSE IF existing.status = "cancelled" /\ status # "cancelled"
        THEN /\ Finish(p, "PATCH", req,
                              Resp(400, "Cannot change status of cancelled booking"))
        ELSE IF existing.status = "completed" /\ status # "completed"
        THEN /\ Finish(p, "PATCH", req,
                              Resp(400, "Cannot change status of completed booking"))
        ELSE IF status = "cancelled" /\ IsPastDate(existing.bookingDate, today)
        THEN /\ Finish(p, "PATCH", req, Resp(400, "Cannot cancel past bookings"))
        ELSE /\ proc' = [proc EXCEPT ![p] =
                   [pc |-> "patch_write", id |-> id, status |-> status]]
  /\ UNCHANGED <<bookings, customers, today>>

\* update bookings set status where id (lines 82-92)
PatchWrite(p) ==
  /\ proc[p].pc = "patch_write"
  /\ LET id == proc[p].id
     IN /\ bookings' = [bookings EXCEPT ![id].status = proc[p].status]
        /\ Finish(p, "PATCH", [id |-> id, status |-> proc[p].status],
                         [Resp(200, "Booking status updated") EXCEPT !.bookingId = id])
  /\ UNCHANGED <<customers, today>>

-----------------------------------------------------------------------------
(* PATCH and DELETE /api/bookings/bulk *)

MaxBulk == 50

\* db.query.bookings.findMany({where: inArray(bookings.id, bookingIds)})
BookingsIn(bookingIds) ==
  SelectSeq(bookings, LAMBDA b : b.id \in SeqToSet(bookingIds))

\* bookingIds.filter(id => !foundIds.includes(id))
MissingIds(bookingIds, existingBookings) ==
  {bookingIds[i] : i \in 1..Len(bookingIds)}
    \ {existingBookings[i].id : i \in 1..Len(existingBookings)}

\* existingBookings.filter(test).map(b => b.id), for the three filters
IdsOf(rows) == {rows[i].id : i \in 1..Len(rows)}

\* the checks of bulk PATCH, in the order of the code (lines 125-210)
BulkPatchChecks(bookingIds, status, now) ==
  LET existingBookings == BookingsIn(bookingIds)
      invalidStatusChanges ==
        SelectSeq(existingBookings, LAMBDA b : InvalidStatusChange(b, status))
      pastBookings ==
        SelectSeq(existingBookings, LAMBDA b : IsPastDate(b.bookingDate, now))
  IN IF Len(bookingIds) = 0
     THEN Resp(400, "bookingIds array is required and cannot be empty")
     ELSE IF Len(bookingIds) > MaxBulk
     THEN Resp(400, "Cannot update more than 50 bookings at once")
     ELSE IF status = ""
     THEN Resp(400, "status is required")
     ELSE IF status \notin validStatuses
     THEN Resp(400, "Invalid status")
     ELSE IF Len(existingBookings) # Len(bookingIds)
     THEN [Resp(404, "Bookings not found") EXCEPT
             !.ids = MissingIds(bookingIds, existingBookings)]
     ELSE IF Len(invalidStatusChanges) > 0
     THEN [Resp(400, "Cannot change status of cancelled/completed bookings") EXCEPT
             !.ids = IdsOf(invalidStatusChanges)]
     ELSE IF status = "cancelled" /\ Len(pastBookings) > 0
     THEN [Resp(400, "Cannot cancel past bookings") EXCEPT
             !.ids = IdsOf(pastBookings)]
     ELSE Pass

\* bulk DELETE's checks stopping at the first offender of a check instead of
\* collecting all of them
BulkDeleteChecksFirstOffender(bookingIds, now) ==
  LET existingBookings == BookingsIn(bookingIds)
      alreadyCancelled ==
        SelectSeq(existingBookings, LAMBDA b : b.status = "cancelled")
      pastBookings ==
        SelectSeq(existingBookings, LAMBDA b : IsPastDate(b.bookingDate, now))
  IN IF Len(bookingIds) = 0
     THEN Resp(400, "bookingIds array is required and cannot be empty")
     ELSE IF Len(bookingIds) > MaxBulk
     THEN Resp(400, "Cannot cancel more than 50 bookings at once")
     ELSE IF Len(existingBookings) # Len(bookingIds)
     THEN [Resp(404, "Bookings not found") EXCEPT
             !.ids = MissingIds(bookingIds, existingBookings)]
     ELSE IF Len(alreadyCancelled) > 0
     THEN [Resp(400, "Bookings already cancelled") EXCEPT
             !.ids = {alreadyCancelled[1].id}]
     ELSE IF Len(pastBookings) > 0
     THEN [Resp(400, "Cannot cancel past bookings") EXCEPT
             !.ids = {pastBookings[1].id}]
     ELSE Pass

\* the checks of bulk DELETE, in the order of the code (lines 242-305)
BulkDeleteChecks(bookingIds, now) ==
  LET existingBookings == BookingsIn(bookingIds)
      alreadyCancelled ==
        SelectSeq(existingBookings, LAMBDA b : b.status = "cancelled")
      pastBookings ==
        SelectSeq(existingBookings, LAMBDA b : IsPastDate(b.bookingDate, now))
  IN IF Len(bookingIds) = 0
     THEN Resp(400, "bookingIds array is required and cannot be empty")
     ELSE IF Len(bookingIds) > MaxBulk
     THEN Resp(400, "Cannot cancel more than 50 bookings at once")
     ELSE IF Len(existingBookings) # Len(bookingIds)
     THEN [Resp(404, "Bookings not found") EXCEPT
             !.ids = MissingIds(bookingIds, existingBookings)]
     ELSE IF Len(alreadyCancelled) > 0
     THEN [Resp(400, "Bookings already cancelled") EXCEPT
             !.ids = IdsOf(alreadyCancelled)]
     ELSE IF Len(pastBookings) > 0
     THEN [Resp(400, "Cannot cancel past bookings") EXCEPT
             !.ids = IdsOf(pastBookings)]
     ELSE Pass

\* the bulk statement as a delete: delete from bookings where id in bookingIds
SetStatusOfDeleting(rows, ids, status) ==
  SelectSeq(rows, LAMBDA b : b.id \notin ids)

\* update bookings set status where id in bookingIds
SetStatusOf(rows, ids, status) ==
  [i \in 1..Len(rows) |->
     IF rows[i].id \in ids THEN [rows[i] EXCEPT !.status = status] ELSE rows[i]]

\* bulk PATCH up to its write (lines 121-210)
BulkPatchBegin(p, bookingIds, status) ==
  /\ proc[p] = Idle
  /\ LET r == BulkPatchChecks(bookingIds, status, today)
     IN IF r # Pass
        THEN /\ Finish(p, "BULK_PATCH", [ids |-> bookingIds, status |-> status], r)
        ELSE /\ proc' = [proc EXCEPT ![p] =
                   [pc |-> "bulk_patch_write", ids |-> bookingIds, status |-> status]]
  /\ UNCHANGED <<bookings, customers, today>>

\* the bulk update (lines 212-223)
BulkPatchWrite(p) ==
  /\ proc[p].pc = "bulk_patch_write"
  /\ bookings' = SetStatusOf(bookings, SeqToSet(proc[p].ids), proc[p].status)
  /\ Finish(p, "BULK_PATCH", [ids |-> proc[p].ids, status |-> proc[p].status],
                   [Resp(200, "Successfully updated") EXCEPT
                      !.ids = IdsOf(BookingsIn(proc[p].ids))])
  /\ UNCHANGED <<customers, today>>

\* bulk DELETE up to its write (lines 238-305)
BulkDeleteBegin(p, bookingIds) ==
  /\ proc[p] = Idle
  /\ LET r == BulkDeleteChecks(bookingIds, today)
     IN IF r # Pass
        THEN /\ Finish(p, "BULK_DELETE", [ids |-> bookingIds], r)
        ELSE /\ proc' = [proc EXCEPT ![p] =
                   [pc |-> "bulk_delete_write", ids |-> bookingIds]]
  /\ UNCHANGED <<bookings, customers, today>>

\* the bulk cancellation (lines 307-318)
BulkDeleteWrite(p) ==
  /\ proc[p].pc = "bulk_delete_write"
  /\ bookings' = SetStatusOf(bookings, SeqToSet(proc[p].ids), "cancelled")
  /\ Finish(p, "BULK_DELETE", [ids |-> proc[p].ids],
                   [Resp(200, "Successfully cancelled") EXCEPT
                      !.ids = IdsOf(BookingsIn(proc[p].ids))])
  /\ UNCHANGED <<customers, today>>

-----------------------------------------------------------------------------
(* The client reads its response *)

Return(p) ==
  /\ proc[p].pc = "done"
  /\ proc' = [proc EXCEPT ![p] = Idle]
  /\ UNCHANGED <<bookings, customers, today>>

-----------------------------------------------------------------------------
(* The clock *)

\* midnight passes: new Date() gives the next day
Tick ==
  /\ today < FirstDay + MaxTicks
  /\ today' = today + 1
  /\ UNCHANGED <<bookings, customers, proc>>

-----------------------------------------------------------------------------
(* The requests the clients send *)

\* booking ids a request may name: every id a row can have, and an unknown one
RequestIds == 1..(MaxBookings + 1)

PostBody(restaurantId, tableId, email, date, time, partySize) ==
  [restaurantId |-> restaurantId, tableId |-> tableId,
   customerName |-> "Al", customerEmail |-> email, customerPhone |-> "5550100100",
   bookingDate |-> date, bookingTime |-> time, partySize |-> partySize,
   specialRequests |-> ""]

PutBody(has) ==
  [has |-> has, customerName |-> "", customerEmail |-> "", customerPhone |-> "",
   bookingDate |-> 0, bookingTime |-> <<>>, partySize |-> 0, tableId |-> 0,
   specialRequests |-> ""]

Statuses == validStatuses \cup {"bogus"}

BulkIds ==
  {<<i>> : i \in RequestIds} \cup {<<i, j>> : i \in RequestIds, j \in RequestIds}

\* Requests of Spec: one client, whose requests run one after the other; two
\* customers, two tables and two days, every status change on every booking
SeqRequests ==
  [procs |-> {1},
   post |->
     {PostBody(1, t, e, d, <<23, 0>>, 4) :
        t \in {1, 2}, e \in {"a@x.io", "b@x.io"}, d \in {FirstDay, FirstDay + 1}}
     \cup {PostBody(1, 1, "a@x.io", FirstDay - 1, <<23, 0>>, 4)},
   put |->
     RequestIds \X
       ({[PutBody({"bookingDate"}) EXCEPT !.bookingDate = d] :
            d \in {FirstDay, FirstDay + 1}}
        \cup {[PutBody({"customerName"}) EXCEPT !.customerName = "Al"],
              [PutBody({"partySize"}) EXCEPT !.partySize = 5],
              [PutBody({"tableId"}) EXCEPT !.tableId = 2]}),
   delete |-> RequestIds,
   patch |-> RequestIds \X Statuses,
   bulkPatch |-> BulkIds \X Statuses,
   bulkDelete |-> BulkIds]

\* Requests of RaceSpec: two clients whose requests interleave at every
\* database call; both create on the same slot, and one request of each
\* other kind on booking 1
RaceRequests ==
  [procs |-> Procs,
   post |-> {PostBody(1, 1, e, FirstDay, <<23, 0>>, 4) : e \in {"a@x.io", "b@x.io"}},
   put |-> {<<1, [PutBody({"customerName", "bookingDate"}) EXCEPT
                    !.customerName = "Al", !.bookingDate = FirstDay + 1]>>},
   delete |-> {1},
   patch |-> {<<1, "completed">>},
   bulkPatch |-> {<<(<<1>>), "no_show">>},
   bulkDelete |-> {<<1, 2>>}]

\* Requests of BulkSpec: one client; every bulk request on every list of one
\* or two ids, on bookings made cancelled, completed, no_show or past-dated
\* by a few single requests
BulkRequests ==
  [procs |-> {1},
   post |->
     {PostBody(1, 1, e, d, <<23, 0>>, 4) :
        e \in {"a@x.io", "b@x.io"}, d \in {FirstDay, FirstDay + 1}},
   put |-> {<<1, [PutBody({"customerName", "tableId"}) EXCEPT
                    !.customerName = "Al", !.tableId = 2]>>},
   delete |-> {1},
   patch |-> {<<1, "completed">>, <<2, "no_show">>, <<1, "cancelled">>},
   bulkPatch |-> BulkIds \X Statuses,
   bulkDelete |-> BulkIds]

\* how many of table, date, time and party size of a create differ from a
\* create that passes every check on FirstDay
Deviations(b) ==
  (IF b.tableId # 1 THEN 1 ELSE 0) + (IF b.bookingDate # FirstDay THEN 1 ELSE 0)
    + (IF b.bookingTime # <<23, 0>> THEN 1 ELSE 0) + (IF b.partySize # 4 THEN 1 ELSE 0)

\* Requests of CreateSpec: one client; creates that break the rules of the
\* form one or two at a time (past, closed, missing and far days, early and
\* late times, an inactive table, a table of another restaurant, parties too
\* large), an unknown restaurant, a missing party size, a second customer
CreateRequests ==
  [procs |-> {1},
   post |->
     {b \in {PostBody(1, t, "a@x.io", d, h, n) :
               t \in {1, 3, 4},
               d \in {FirstDay - 1, FirstDay, FirstDay + 1, FirstDay + 2, FirstDay + 3,
                      FirstDay + HorizonDays, FirstDay + HorizonDays + 1},
               h \in {<<10, 0>>, <<23, 0>>, <<23, 30>>},
               n \in {4, 5, 25}} : Deviations(b) <= 2}
     \cup {PostBody(1, 1, "b@x.io", FirstDay, <<23, 0>>, 4),
           PostBody(3, 1, "a@x.io", FirstDay, <<23, 0>>, 4),
           PostBody(3, 1, "a@x.io", FirstDay - 1, <<23, 0>>, 4),
           PostBody(1, 1, "a@x.io", FirstDay - 1, <<23, 0>>, 0),
           PostBody(1, 1, "a@x.io", FirstDay - 1, <<23, 0>>, -1)},
   put |-> {<<1, [PutBody({"customerName", "tableId"}) EXCEPT
                    !.customerName = "Bo", !.tableId = 2]>>},
   delete |-> {1},
   patch |-> {<<1, "completed">>},
   bulkPatch |-> {<<(<<2>>), "no_show">>},
   bulkDelete |-> {<<2>>}]

\* Requests of UpdateSpec: one client; creates at both restaurants, before,
\* inside and after the opening hours, and updates of each field of a
\* booking, alone and together with customer fields
UpdateRequests ==
  [procs |-> {1},
   post |->
     {PostBody(1, 1, "a@x.io", FirstDay, h, 4) :
        h \in {<<10, 0>>, <<23, 0>>, <<23, 30>>}}
     \cup {PostBody(2, 4, "b@x.io", FirstDay, h, 4) : h \in {<<21, 0>>, <<21, 30>>}},
   put |->
     {1, 2} \X
       ({[PutBody({"specialRequests"}) EXCEPT !.specialRequests = r] :
            r \in {"", "window"}}
        \cup {[PutBody({"bookingTime"}) EXCEPT !.bookingTime = h] :
                h \in {<<10, 0>>, <<21, 0>>, <<21, 30>>, <<23, 0>>, <<23, 30>>}}
        \cup {[PutBody({"customerName", "bookingDate"}) EXCEPT
                 !.customerName = "Bo", !.bookingDate = FirstDay - 1],
              [PutBody({"customerPhone", "tableId"}) EXCEPT
                 !.customerPhone = "5550100199", !.tableId = 3],
              [PutBody({"customerEmail"}) EXCEPT !.customerEmail = "b@x.io"]}),
   delete |-> {1},
   patch |-> {<<1, "completed">>},
   bulkPatch |-> {<<(<<2>>), "no_show">>},
   bulkDelete |-> {<<2>>}]

\* Requests of CustomerSpec: two clients whose requests interleave at every
\* database call; creates with the same and with different emails on one
\* slot, and updates that change the email of the customer of booking 1
CustomerRequests ==
  [procs |-> Procs,
   post |-> {PostBody(1, 1, e, FirstDay, <<23, 0>>, 4) : e \in {"a@x.io", "b@x.io"}},
   put |-> {<<1, [PutBody({"customerEmail"}) EXCEPT !.customerEmail = "a@x.io"]>>,
            <<1, [PutBody({"customerEmail", "bookingDate"}) EXCEPT
                    !.customerEmail = "b@x.io", !.bookingDate = FirstDay + 1]>>},
   delete |-> {1},
   patch |-> {<<1, "completed">>},
   bulkPatch |-> {<<(<<1>>), "no_show">>},
   bulkDelete |-> {<<1, 2>>}]

\* Requests of ConcurrentSpec: two clients whose requests interleave at every
\* database call; two customers book two times of one table, updates move
\* either booking to a third, free time, and booking 1 is completed,
\* cancelled alone and cancelled in bulk
ConcurrentRequests ==
  [procs |-> Procs,
   post |-> {PostBody(1, 1, "a@x.io", FirstDay, <<22, 0>>, 4),
             PostBody(1, 1, "b@x.io", FirstDay, <<23, 0>>, 4)},
   put |-> ({1, 2} \X {[PutBody({"bookingTime"}) EXCEPT !.bookingTime = <<21, 0>>]})
             \cup {<<2, [PutBody({"customerName", "bookingTime"}) EXCEPT
                           !.customerName = "Bo", !.bookingTime = <<21, 0>>]>>},
   delete |-> {1},
   patch |-> {<<1, "completed">>},
   bulkPatch |-> {<<(<<1>>), "no_show">>},
   bulkDelete |-> {<<1>>}]

\* Requests of MoveSpec: one client; two customers book two tables at one
\* time, or two times of one table; updates move booking 2 by its time or
\* its table onto the slot of booking 1, alone and with a customer field or
\* a party size out of range, and booking 1 onto its own slot
MoveRequests ==
  [procs |-> {1},
   post |-> {PostBody(1, 1, "a@x.io", FirstDay, <<22, 0>>, 4),
             PostBody(1, 2, "b@x.io", FirstDay, <<22, 0>>, 4),
             PostBody(1, 1, "b@x.io", FirstDay, <<23, 0>>, 4)},
   put |->
     ({1, 2} \X {[PutBody({"bookingTime"}) EXCEPT !.bookingTime = <<22, 0>>]})
     \cup ({2} \X
             {[PutBody({"tableId"}) EXCEPT !.tableId = 1],
              [PutBody({"partySize", "bookingTime"}) EXCEPT
                 !.partySize = 25, !.bookingTime = <<22, 0>>],
              [PutBody({"customerName", "bookingTime"}) EXCEPT
                 !.customerName = "Bo", !.bookingTime = <<22, 0>>]}),
   delete |-> {1},
   patch |-> {<<1, "completed">>},
   bulkPatch |-> {<<(<<2>>), "no_show">>},
   bulkDelete |-> {<<2>>}]

\* Requests of TableSpec: one client; creates at both restaurants, on an
\* inactive table, on a table of the other restaurant and with parties of 0,
\* -1, 21 and 25; updates of the table (active, inactive, of the other
\* restaurant, unknown) and of the party size (20, 21, 0), alone and with a
\* customer name, a second invalid field or a customer email that may be taken
TableRequests ==
  [procs |-> {1},
   post |->
     {PostBody(1, 1, "a@x.io", FirstDay, <<21, 0>>, n) : n \in {4, 21, 0, -1}}
     \cup {PostBody(1, t, "a@x.io", FirstDay, <<21, 0>>, n) : t \in {3, 4}, n \in {4, 25}}
     \cup {PostBody(2, 4, "b@x.io", FirstDay, <<21, 0>>, 4),
           PostBody(2, 3, "b@x.io", FirstDay, <<21, 0>>, 4)},
   put |->
     {1, 2} \X
       ({[PutBody({"tableId"}) EXCEPT !.tableId = t] : t \in {2, 3, 4, 5}}
        \cup {[PutBody({"partySize"}) EXCEPT !.partySize = n] : n \in {20, 21, 0}}
        \cup {[PutBody({"customerName", "tableId"}) EXCEPT
                 !.customerName = "Bo", !.tableId = 3],
              [PutBody({"customerEmail", "partySize", "tableId"}) EXCEPT
                 !.customerEmail = "b@x.io", !.partySize = 21, !.tableId = 3],
              [PutBody({"partySize", "tableId"}) EXCEPT
                 !.partySize = 21, !.tableId = 4],
              [PutBody({"bookingDate", "tableId"}) EXCEPT
                 !.bookingDate = FirstDay - 1, !.tableId = 4]}),
   delete |-> {1},
   patch |-> {<<1, "completed">>},
   bulkPatch |-> {<<(<<2>>), "no_show">>},
   bulkDelete |-> {<<2>>}]

\* Requests of StatusSpec: one client; two creates on one slot, an update
\* that moves booking 1 to another table, and every
\* single and bulk status PATCH with each status of the API, with a status
\* the API does not know and with none (""), on every id and every list of
\* up to two ids, the empty list included
StatusRequests ==
  [procs |-> {1},
   post |-> {PostBody(1, 1, e, FirstDay, <<23, 0>>, 4) : e \in {"a@x.io", "b@x.io"}},
   put |-> {<<1, [PutBody({"customerName", "tableId"}) EXCEPT
                    !.customerName = "Bo", !.tableId = 2]>>},
   delete |-> {1},
   patch |-> RequestIds \X (Statuses \cup {""}),
   bulkPatch |-> (BulkIds \cup {<<>>}) \X (Statuses \cup {""}),
   bulkDelete |-> {<<1, 2>>}]

\* Requests of PlainSpec: one client; two customers book one slot, the same
\* time at another table and another time at the same table; updates move
\* either booking by its time or by its table, also onto the slot of the
\* other; either booking is cancelled, alone or in bulk, and its slot is
\* booked again
PlainRequests ==
  [procs |-> {1},
   post |-> {PostBody(1, 1, "a@x.io", FirstDay, <<22, 0>>, 4),
             PostBody(1, 1, "b@x.io", FirstDay, <<22, 0>>, 4),
             PostBody(1, 2, "b@x.io", FirstDay, <<22, 0>>, 4),
             PostBody(1, 1, "b@x.io", FirstDay, <<23, 0>>, 4)},
   put |->
     ({1, 2} \X
        ({[PutBody({"bookingTime"}) EXCEPT !.bookingTime = h] : h \in {<<22, 0>>, <<23, 0>>}}
         \cup {[PutBody({"tableId"}) EXCEPT !.tableId = t] : t \in {1, 2}}))
     \cup {<<2, [PutBody({"customerName", "tableId"}) EXCEPT
                   !.customerName = "Bo", !.tableId = 1]>>},
   delete |-> {1, 2},
   patch |-> {},
   bulkPatch |-> {},
   bulkDelete |-> {<<1>>, <<1, 2>>}]

-----------------------------------------------------------------------------
(* The specifications *)

Init ==
  /\ bookings = <<>>
  /\ customers = <<>>
  /\ today = FirstDay
  /\ proc = [p \in Procs |-> Idle]

\* a step of a handler serving a request of R, of a client, or of the clock
Step(R) ==
  \/ \E p \in R.procs :
       \/ \E b \in R.post : PostBegin(p, b)
       \/ PostFindCustomer(p)
       \/ PostInsertCustomer(p)
       \/ PostCustomerDay(p)
       \/ PostSlot(p)
       \/ PostInsert(p)
       \/ \E r \in R.put : PutBegin(p, r[1], r[2])
       \/ PutUpdateCustomer(p)
       \/ PutConflict(p)
       \/ PutWrite(p)
       \/ \E id \in R.delete : DeleteBegin(p, id)
       \/ DeleteWrite(p)
       \/ \E r \in R.patch : PatchBegin(p, r[1], r[2])
       \/ PatchWrite(p)
       \/ \E r \in R.bulkPatch : BulkPatchBegin(p, r[1], r[2])
       \/ BulkPatchWrite(p)
       \/ \E ids \in R.bulkDelete : BulkDeleteBegin(p, ids)
       \/ BulkDeleteWrite(p)
       \/ Return(p)
  \/ Tick

\* a step of a handler of create, update or cancel serving a request of R,
\* of a client, or of the clock: the steps of an execution without status
\* PATCH requests
StepNoPatch(R) ==
  \/ \E p \in R.procs :
       \/ \E b \in R.post : PostBegin(p, b)
       \/ PostFindCustomer(p)
       \/ PostInsertCustomer(p)
       \/ PostCustomerDay(p)
       \/ PostSlot(p)
       \/ PostInsert(p)
       \/ \E r \in R.put : PutBegin(p, r[1], r[2])
       \/ PutUpdateCustomer(p)
       \/ PutConflict(p)
       \/ PutWrite(p)
       \/ \E id \in R.delete : DeleteBegin(p, id)
       \/ DeleteWrite(p)
       \/ \E ids \in R.bulkDelete : BulkDeleteBegin(p, ids)
       \/ BulkDeleteWrite(p)
       \/ Return(p)
  \/ Tick

Next == Step(SeqRequests)

Spec == Init /\ [][Next]_vars

RaceNext == Step(RaceRequests)

RaceSpec == Init /\ [][RaceNext]_vars

BulkNext == Step(BulkRequests)

BulkSpec == Init /\ [][BulkNext]_vars

CreateNext == Step(CreateRequests)

CreateSpec == Init /\ [][CreateNext]_vars

UpdateNext == Step(UpdateRequests)

UpdateSpec == Init /\ [][UpdateNext]_vars

CustomerNext == Step(CustomerRequests)

CustomerSpec == Init /\ [][CustomerNext]_vars

ConcurrentNext == Step(ConcurrentRequests)

ConcurrentSpec == Init /\ [][ConcurrentNext]_vars

MoveNext == Step(MoveRequests)

MoveSpec == Init /\ [][MoveNext]_vars

TableNext == Step(TableRequests)

TableSpec == Init /\ [][TableNext]_vars

StatusNext == Step(StatusRequests)

StatusSpec == Init /\ [][StatusNext]_vars

PlainNext == StepNoPatch(PlainRequests)

PlainSpec == Init /\ [][PlainNext]_vars

-----------------------------------------------------------------------------
(* Properties *)

BookingIds == 1..Len(bookings)

Slot(b) == <<b.tableId, b.bookingDate, b.bookingTime>>

Confirmed(i) == bookings[i].status = "confirmed"

\* C1 (slot exclusivity): in every reachable state no two distinct confirmed
\* bookings share the same (tableId, bookingDate, bookingTime).
C1_SlotExclusivity ==
  \A i, j \in BookingIds :
    (i # j /\ Confirmed(i) /\ Confirmed(j)) => Slot(bookings[i]) # Slot(bookings[j])

\* a create of client p that has ended with response code `code`
CreateEnded(p, code) ==
  /\ proc[p].pc = "done"
  /\ proc[p].op = "POST"
  /\ proc[p].resp.code = code

\* C2 (concurrent creates): of two creates for the same (table, date, time)
\* from two different customers, exactly one succeeds with a confirmed booking
\* and the other is rejected: never do both hold a 201 for a booking that is
\* confirmed.
C2_OneCreateSucceeds ==
  \A p, q \in Procs :
    ( /\ p # q
      /\ CreateEnded(p, 201)
      /\ CreateEnded(q, 201)
      /\ Slot(proc[p].req) = Slot(proc[q].req)
      /\ proc[p].req.customerEmail # proc[q].req.customerEmail )
    => ~(Confirmed(proc[p].resp.bookingId) /\ Confirmed(proc[q].resp.bookingId))

\* C3 (one reservation per day): in every reachable state there is at most one
\* confirmed booking for any (customerId, restaurantId, bookingDate).
C3_OneReservationPerDay ==
  \A i, j \in BookingIds :
    (i # j /\ Confirmed(i) /\ Confirmed(j))
      => <<bookings[i].customerId, bookings[i].restaurantId, bookings[i].bookingDate>>
           # <<bookings[j].customerId, bookings[j].restaurantId, bookings[j].bookingDate>>

\* C4 (capacity): every confirmed booking's partySize is at most the capacity
\* of the table it refers to.
C4_CapacityInvariant ==
  \A i \in BookingIds :
    Confirmed(i) => bookings[i].partySize <= TableById(bookings[i].tableId).capacity

\* C5 (terminal statuses): once a booking is cancelled or completed, no step
\* of any request changes its status.
C5_TerminalStatuses ==
  [][\A i \in BookingIds :
       bookings[i].status \in {"cancelled", "completed"}
         => bookings'[i].status = bookings[i].status]_vars

-----------------------------------------------------------------------------
(* A request as seen on the step that starts it: the record the handler     *)
(* leaves in proc' is either its response or what its write will use.       *)

\* client p sends a request on this step
Begun(p) == proc[p] = Idle /\ proc'[p] # Idle

\* the operation of the request a handler record r belongs to
OpOf(r) ==
  IF r.pc = "done" THEN r.op
  ELSE IF r.pc = "delete_write" THEN "DELETE"
  ELSE IF r.pc = "patch_write" THEN "PATCH"
  ELSE IF r.pc = "bulk_patch_write" THEN "BULK_PATCH"
  ELSE IF r.pc = "bulk_delete_write" THEN "BULK_DELETE"
  ELSE "other"

\* the request of a handler record r of a status-changing operation
ReqOf(r) == IF r.pc = "done" THEN r.req ELSE r

\* the booking ids the request asks to change
TargetIds(r) ==
  IF OpOf(r) \in {"DELETE", "PATCH"} THEN {ReqOf(r).id}
  ELSE IF OpOf(r) \in {"BULK_PATCH", "BULK_DELETE"} THEN SeqToSet(ReqOf(r).ids)
  ELSE {}

\* the status the request asks for
TargetStatus(r) ==
  IF OpOf(r) \in {"DELETE", "BULK_DELETE"} THEN "cancelled"
  ELSE IF OpOf(r) \in {"PATCH", "BULK_PATCH"} THEN ReqOf(r).status
  ELSE ""

\* the request ended with an error response, without a write
Rejected(r) == r.pc = "done" /\ r.resp.code >= 400

Known(id) == \E i \in BookingIds : bookings[i].id = id

StatusOfId(id) == bookings[CHOOSE i \in BookingIds : bookings[i].id = id].status

DateOfId(id) == bookings[CHOOSE i \in BookingIds : bookings[i].id = id].bookingDate

\* C6 (idempotent cancellation guard): a request that asks to cancel a booking
\* whose status is already cancelled is rejected, on each cancelling path
\* (single DELETE, PATCH with status cancelled, bulk PATCH with status
\* cancelled, bulk DELETE).
C6_CancelOfCancelledRejected ==
  [][\A p \in Procs :
       ( /\ Begun(p)
         /\ TargetStatus(proc'[p]) = "cancelled"
         /\ \E id \in TargetIds(proc'[p]) :
              Known(id) /\ StatusOfId(id) = "cancelled" )
       => Rejected(proc'[p])]_vars

\* the request names each of its booking ids once
DistinctIds(r) ==
  OpOf(r) \in {"BULK_PATCH", "BULK_DELETE"}
    => Len(ReqOf(r).ids) = Cardinality(SeqToSet(ReqOf(r).ids))

\* C7 (cancel of a terminal booking): a single or bulk DELETE that names
\* existing bookings, each once, one of which is cancelled or completed,
\* returns 400 and changes no booking.
C7_CancelOfTerminalRejected ==
  [][\A p \in Procs :
       ( /\ Begun(p)
         /\ OpOf(proc'[p]) \in {"DELETE", "BULK_DELETE"}
         /\ DistinctIds(proc'[p])
         /\ \A id \in TargetIds(proc'[p]) : Known(id)
         /\ \E id \in TargetIds(proc'[p]) :
              StatusOfId(id) \in {"cancelled", "completed"} )
       => /\ proc'[p].pc = "done"
          /\ proc'[p].resp.code = 400
          /\ bookings' = bookings]_vars

\* C8 (legal transitions): the only status changes that occur on a booking are
\* confirmed -> cancelled, confirmed -> completed and confirmed -> no_show.
C8_LegalTransitions ==
  [][\A i \in BookingIds :
       bookings'[i].status # bookings[i].status
         => /\ bookings[i].status = "confirmed"
            /\ bookings'[i].status \in {"cancelled", "completed", "no_show"}]_vars

\* a booking fails the legality check of a change to status s: it is already
\* terminal (re-applying completed to a completed booking aside), or it is
\* past-dated and s cancels it
Illegal(id, s) ==
  \/ StatusOfId(id) = "cancelled"
  \/ StatusOfId(id) = "completed" /\ s # "completed"
  \/ s = "cancelled" /\ DateOfId(id) < today

\* a well-formed bulk request: a target status the API knows
WellFormedBulk(r) ==
  /\ OpOf(r) \in {"BULK_PATCH", "BULK_DELETE"}
  /\ TargetStatus(r) \in validStatuses

\* C9 (bulk all-or-nothing): a bulk PATCH or bulk DELETE with an unknown id or
\* with a booking that fails a legality check is rejected and changes no
\* booking; an accepted one leaves every listed booking with the target
\* status.
C9_BulkAllOrNothing ==
  [][\A p \in Procs :
       /\ ( /\ Begun(p)
            /\ WellFormedBulk(proc'[p])
            /\ \E id \in TargetIds(proc'[p]) :
                 ~Known(id) \/ Illegal(id, TargetStatus(proc'[p])) )
          => (Rejected(proc'[p]) /\ bookings' = bookings)
       /\ ( /\ proc[p].pc \in {"bulk_patch_write", "bulk_delete_write"}
            /\ proc'[p].pc = "done" )
          => \A i \in BookingIds :
               bookings[i].id \in TargetIds(proc[p])
                 => bookings'[i].status = TargetStatus(proc[p])]_vars

\* the requested ids that are unknown, that fail the status rule, that are
\* past-dated
UnknownIds(r) == {id \in TargetIds(r) : ~Known(id)}

TerminalIds(r) ==
  {id \in TargetIds(r) : Known(id) /\ StatusOfId(id) \in {"cancelled", "completed"}}

PastIds(r) == {id \in TargetIds(r) : Known(id) /\ DateOfId(id) < today}

StatusRuleIds(r) ==
  {id \in TargetIds(r) :
     /\ Known(id)
     /\ IF OpOf(r) = "BULK_DELETE" THEN StatusOfId(id) = "cancelled"
        ELSE /\ StatusOfId(id) \in {"cancelled", "completed"}
             /\ StatusOfId(id) # TargetStatus(r)}

-----------------------------------------------------------------------------
(* Cancelling past-dated bookings *)

\* the request asks to cancel a booking that is dated before today
CancelsPast(r) ==
  /\ TargetStatus(r) = "cancelled"
  /\ \E id \in TargetIds(r) : Known(id) /\ DateOfId(id) < today

\* a booking's status changes to cancelled on this step
BecomesCancelled(i) ==
  bookings[i].status # "cancelled" /\ bookings'[i].status = "cancelled"

\* C11 as stated (past-dated bookings are never cancelled): a single DELETE,
\* a status PATCH with status cancelled, a bulk PATCH with status cancelled
\* and a bulk DELETE (naming each id once) that target a booking dated before
\* today all return 400 and change nothing, and a booking whose status
\* changes to cancelled has bookingDate >= today at that moment.
C11_PastCancelRejected ==
  [][/\ \A p \in Procs :
          (Begun(p) /\ CancelsPast(proc'[p]) /\ DistinctIds(proc'[p]))
          => /\ proc'[p].pc = "done"
             /\ proc'[p].resp.code = 400
             /\ bookings' = bookings
     /\ \A i \in BookingIds :
          BecomesCancelled(i) => bookings[i].bookingDate >= today]_vars

\* the bulk request names an unknown id, or an id twice
BulkIdsNotFound(r) ==
  /\ OpOf(r) \in {"BULK_PATCH", "BULK_DELETE"}
  /\ (UnknownIds(r) # {} \/ ~DistinctIds(r))

\* C11 as amended (past-dated bookings are rejected when the request is
\* checked): each of the four cancelling requests that targets a booking dated
\* before today is rejected and changes nothing, with 400, or with 404 when a
\* bulk request also names an unknown or repeated id; a booking's status
\* changes to cancelled only by the write of a cancelling request that found
\* every targeted booking dated today or later when it made its checks.
C11_PastCancelChecked ==
  [][/\ \A p \in Procs :
          (Begun(p) /\ CancelsPast(proc'[p]))
          => /\ proc'[p].pc = "done"
             /\ proc'[p].resp.code = (IF BulkIdsNotFound(proc'[p]) THEN 404 ELSE 400)
             /\ bookings' = bookings
     /\ \A p \in Procs :
          ( /\ Begun(p)
            /\ proc'[p].pc \in {"delete_write", "patch_write",
                                "bulk_patch_write", "bulk_delete_write"}
            /\ TargetStatus(proc'[p]) = "cancelled" )
          => \A id \in TargetIds(proc'[p]) : Known(id) /\ DateOfId(id) >= today
     /\ \A i \in BookingIds :
          BecomesCancelled(i)
          => \E p \in Procs :
               /\ proc[p].pc \in {"delete_write", "patch_write",
                                  "bulk_patch_write", "bulk_delete_write"}
               /\ proc'[p].pc = "done"
               /\ TargetStatus(proc[p]) = "cancelled"
               /\ bookings[i].id \in TargetIds(proc[p])]_vars

\* a cancel of a confirmed booking dated before today has been rejected for
\* its date
C11_Witness ==
  \E p \in Procs :
    /\ proc[p].pc = "done"
    /\ proc[p].resp.code = 400
    /\ proc[p].resp.error = "Cannot cancel past bookings"
    /\ \E id \in TargetIds(proc[p]) :
         Known(id) /\ DateOfId(id) < today /\ StatusOfId(id) = "confirmed"

-----------------------------------------------------------------------------
(* The rules of a create, stated on the request and the fixed data *)

\* client p sends a create on this step
CreateBegun(p) ==
  /\ Begun(p)
  /\ \/ proc'[p].pc = "post_findCustomer"
     \/ proc'[p].pc = "done" /\ proc'[p].op = "POST"

\* the body of the create client p sent on this step
CreateOf(r) == IF r.pc = "done" THEN r.req ELSE r.body

\* the create passed every check of the form and goes on to the customer
Admitted(r) == r.pc = "post_findCustomer"

\* the opening-hours entries of the restaurant for the day of week of the date
HoursEntries(b) ==
  {i \in 1..Len(OpeningHoursRows) :
     /\ OpeningHoursRows[i].restaurantId = b.restaurantId
     /\ OpeningHoursRows[i].dayOfWeek = b.bookingDate % 7}

\* the tables of the restaurant with the requested id
TableEntries(b) ==
  {i \in 1..Len(TableRows) :
     TableRows[i].restaurantId = b.restaurantId /\ TableRows[i].id = b.tableId}

\* the restaurant is closed on the date: no entry for the day, or isClosed
ClosedDay(b) ==
  /\ b.restaurantId \in Restaurants
  /\ \A i \in HoursEntries(b) : OpeningHoursRows[i].isClosed

\* the closing boundary of an entry, in minutes: 1440 for "00:00"
CloseBoundary(h) ==
  IF h.closeTime = <<0, 0>> THEN 1440 ELSE h.closeTime[1] * 60 + h.closeTime[2]

\* openMinutes <= bookingMinutes <= closeBoundary - 60
InWindow(time, h) ==
  /\ h.openTime[1] * 60 + h.openTime[2] <= time[1] * 60 + time[2]
  /\ time[1] * 60 + time[2] <= CloseBoundary(h) - 60

\* rule k of the availability rules, in the numbering of the rule list, is
\* violated by create b
RuleViolated(k, b) ==
  CASE k = 1 -> b.bookingDate < today
    [] k = 2 -> b.bookingDate > today + 90
    [] k = 3 -> b.partySize < 1 \/ b.partySize > 20
    [] k = 4 -> ClosedDay(b)
    [] k = 5 -> /\ b.restaurantId \in Restaurants
                /\ ~ClosedDay(b)
                /\ \E i \in HoursEntries(b) : ~InWindow(b.bookingTime, OpeningHoursRows[i])
    [] k = 6 -> \E i \in TableEntries(b) : ~TableRows[i].isActive
    [] k = 7 -> \E i \in TableEntries(b) : b.partySize > TableRows[i].capacity

\* the rejection reason of rule k
RuleReason(k) ==
  CASE k = 1 -> "Cannot book in the past"
    [] k = 2 -> "Cannot book more than 90 days in advance"
    [] k = 3 -> "Party size must be between 1 and 20"
    [] k = 4 -> "Restaurant is closed on this day"
    [] k = 5 -> "Restaurant hours"
    [] k = 6 -> "Table is not available"
    [] k = 7 -> "Party size exceeds table capacity"

\* the position in `order` of the first rule create b violates, 0 if none
FirstViolated(order, b) ==
  IF \E n \in 1..Len(order) : RuleViolated(order[n], b)
  THEN order[CHOOSE n \in 1..Len(order) :
               /\ RuleViolated(order[n], b)
               /\ \A m \in 1..(n - 1) : ~RuleViolated(order[m], b)]
  ELSE 0

\* the order of the rule list: past date, horizon, party size, ...
ListedOrder == <<1, 2, 3, 4, 5, 6, 7>>

\* party size before the two date rules
PartySizeFirstOrder == <<3, 1, 2, 4, 5, 6, 7>>

\* a create with every required field (a party size of 0 counts as missing)
\* and a well-formed email
WellFormedCreate(b) ==
  /\ b.partySize # 0
  /\ b.customerEmail \in {"a@x.io", "b@x.io"}

\* a create for a table of a known restaurant
KnownTable(b) == b.restaurantId \in Restaurants /\ TableEntries(b) # {}

\* C12 as stated (order of the availability checks): a create that violates
\* some of the rules (1) past date, (2) beyond horizon, (3) party size outside
\* [1,20], (4) closed day, (5) outside time window, (6) inactive table,
\* (7) capacity exceeded is rejected with the reason of the lowest-numbered
\* violated rule.
C12_ListedOrder ==
  [][\A p \in Procs :
       ( /\ CreateBegun(p)
         /\ WellFormedCreate(CreateOf(proc'[p]))
         /\ KnownTable(CreateOf(proc'[p]))
         /\ FirstViolated(ListedOrder, CreateOf(proc'[p])) # 0 )
       => /\ Rejected(proc'[p])
          /\ proc'[p].resp.error =
               RuleReason(FirstViolated(ListedOrder, CreateOf(proc'[p])))]_vars

\* C12 as amended (party size is checked first): the checks run in the order
\* (1) party size outside [1,20], (2) past date, (3) beyond horizon,
\* (4) closed day, (5) outside time window, (6) inactive table, (7) capacity
\* exceeded, and a create with all required fields and a well-formed email
\* that violates some of them is rejected with 400 and the reason of the
\* first violated rule in this order; one that violates none is rejected
\* only for an unknown restaurant or table (404).
C12_PartySizeFirst ==
  [][\A p \in Procs :
       (CreateBegun(p) /\ WellFormedCreate(CreateOf(proc'[p])))
       => LET b == CreateOf(proc'[p])
              k == FirstViolated(PartySizeFirstOrder, b)
          IN IF k # 0
             THEN /\ Rejected(proc'[p])
                  /\ proc'[p].resp.code = 400
                  /\ proc'[p].resp.error = RuleReason(k)
             ELSE IF KnownTable(b)
             THEN Admitted(proc'[p])
             ELSE Rejected(proc'[p]) /\ proc'[p].resp.code = 404]_vars

\* a create for a past date with a party of 25 has been rejected for its party
\* size
C12_Witness ==
  \E p \in Procs :
    /\ proc[p].pc = "done"
    /\ proc[p].op = "POST"
    /\ proc[p].req.bookingDate < FirstDay
    /\ proc[p].req.partySize > 20
    /\ proc[p].resp.error = "Party size must be between 1 and 20"

-----------------------------------------------------------------------------
(* The time window *)

\* a create that passes every check other than the time window
OtherRulesPass(b) ==
  /\ WellFormedCreate(b)
  /\ KnownTable(b)
  /\ \A k \in {1, 2, 3, 4, 6, 7} : ~RuleViolated(k, b)

\* the validation of an update (PUT) by client p runs on this step: the
\* handler loaded the booking on this step, or has just written the customer
UpdateChecked(p) ==
  /\ Begun(p) \/ proc[p].pc = "put_customer"
  /\ \/ proc'[p].pc \in {"put_conflict", "put_write"}
     \/ proc'[p].pc = "done" /\ proc'[p].op = "PUT"

\* the id and the body of the update of handler record r
UpdateIdOf(r) == IF r.pc = "done" THEN r.req.id ELSE r.id

UpdateBodyOf(r) == IF r.pc = "done" THEN r.req.body ELSE r.body

\* the booking row with the id
RowOfId(id) == bookings[CHOOSE i \in BookingIds : bookings[i].id = id]

\* the booking as the update of client p loaded it
LoadedBy(p) ==
  IF proc[p] = Idle THEN RowOfId(UpdateIdOf(proc'[p])) ELSE proc[p].existing

\* an update of the date and/or the time alone, of a booking that is not
\* cancelled, to a date that passes the date rules; x is the booking as loaded
DateTimeUpdate(body, x) ==
  /\ body.has # {}
  /\ body.has \subseteq {"bookingDate", "bookingTime"}
  /\ "bookingDate" \in body.has => body.bookingDate # 0
  /\ "bookingTime" \in body.has => body.bookingTime # <<>>
  /\ x.status # "cancelled"

\* the booking of a date/time update as a create of the new date and time
Moved(body, x) ==
  [restaurantId |-> x.restaurantId, tableId |-> x.tableId, partySize |-> x.partySize,
   customerEmail |-> "a@x.io",
   bookingDate |-> IF "bookingDate" \in body.has THEN body.bookingDate ELSE x.bookingDate,
   bookingTime |-> IF "bookingTime" \in body.has THEN body.bookingTime ELSE x.bookingTime]

\* C13 (time window with midnight close): with all other checks passing, a
\* create or a date/time update passes the opening-hours check if and only if
\* openMinutes <= bookingMinutes <= closeBoundary - 60, closeBoundary being
\* 1440 for closeTime "00:00" and the closeTime's minutes otherwise; if not,
\* it is rejected with 400 and the opening hours.
C13_TimeWindow ==
  [][\A p \in Procs :
       /\ (CreateBegun(p) /\ OtherRulesPass(CreateOf(proc'[p])))
          => LET b == CreateOf(proc'[p])
             IN IF \A i \in HoursEntries(b) : InWindow(b.bookingTime, OpeningHoursRows[i])
                THEN Admitted(proc'[p])
                ELSE /\ Rejected(proc'[p])
                     /\ proc'[p].resp.code = 400
                     /\ proc'[p].resp.error = "Restaurant hours"
       /\ ( /\ UpdateChecked(p)
            /\ proc[p] = Idle => Known(UpdateIdOf(proc'[p]))
            /\ DateTimeUpdate(UpdateBodyOf(proc'[p]), LoadedBy(p))
            /\ \A k \in {1, 2, 4} :
                 ~RuleViolated(k, Moved(UpdateBodyOf(proc'[p]), LoadedBy(p))) )
          => LET b == Moved(UpdateBodyOf(proc'[p]), LoadedBy(p))
             IN IF \A i \in HoursEntries(b) : InWindow(b.bookingTime, OpeningHoursRows[i])
                THEN proc'[p].pc = "put_conflict"
                ELSE /\ Rejected(proc'[p])
                     /\ proc'[p].resp.code = 400
                     /\ proc'[p].resp.error = "Restaurant hours"]_vars

\* at a restaurant that closes at "00:00" a booking at 23:00 exists and a
\* create at 23:30 has been rejected for the opening hours
C13_Witness ==
  /\ \E i \in BookingIds :
       /\ bookings[i].bookingTime = <<23, 0>>
       /\ \E j \in 1..Len(OpeningHoursRows) :
            /\ OpeningHoursRows[j].restaurantId = bookings[i].restaurantId
            /\ OpeningHoursRows[j].dayOfWeek = bookings[i].bookingDate % 7
            /\ OpeningHoursRows[j].closeTime = <<0, 0>>
  /\ \E p \in Procs :
       /\ proc[p].pc = "done"
       /\ proc[p].op = "POST"
       /\ proc[p].req.restaurantId = 1
       /\ proc[p].req.bookingTime = <<23, 30>>
       /\ proc[p].resp.error = "Restaurant hours"

-----------------------------------------------------------------------------
(* The date boundaries of a create *)

\* a create that passes every check other than the two date rules
NonDateRulesPass(b) ==
  /\ WellFormedCreate(b)
  /\ KnownTable(b)
  /\ \A k \in {3, 4, 5, 6, 7} : ~RuleViolated(k, b)

\* a create that passes the checks made before the date rules
EarlierChecksPass(b) == WellFormedCreate(b) /\ ~RuleViolated(3, b)

\* C14 (horizon boundary): with all other checks passing, a create for
\* today + 90 days passes the checks and one for today + 91 days is rejected
\* with 400, at every time of day at which the request is processed.
C14_HorizonBoundary ==
  [][\A p \in Procs :
       CreateBegun(p)
       => LET b == CreateOf(proc'[p])
          IN /\ (b.bookingDate = today + 90 /\ NonDateRulesPass(b))
                => Admitted(proc'[p])
             /\ (b.bookingDate = today + 91 /\ EarlierChecksPass(b))
                => /\ Rejected(proc'[p])
                   /\ proc'[p].resp.code = 400
                   /\ proc'[p].resp.error = "Cannot book more than 90 days in advance"
                   /\ bookings' = bookings]_vars

\* a booking 90 days from today exists and a create for 91 days from today
\* has been rejected for the horizon
C14_Witness ==
  /\ \E i \in BookingIds : bookings[i].bookingDate = today + 90
  /\ \E p \in Procs :
       /\ proc[p].pc = "done"
       /\ proc[p].op = "POST"
       /\ proc[p].req.bookingDate = today + 91
       /\ proc[p].resp.error = "Cannot book more than 90 days in advance"

\* C15 (past-date boundary): with all other checks passing, a create for
\* today passes the checks and one for yesterday or an earlier day is rejected
\* with 400 and inserts nothing, at every time of day of the request.
C15_PastDateBoundary ==
  [][\A p \in Procs :
       CreateBegun(p)
       => LET b == CreateOf(proc'[p])
          IN /\ (b.bookingDate = today /\ NonDateRulesPass(b))
                => Admitted(proc'[p])
             /\ (b.bookingDate < today /\ EarlierChecksPass(b))
                => /\ Rejected(proc'[p])
                   /\ proc'[p].resp.code = 400
                   /\ proc'[p].resp.error = "Cannot book in the past"
                   /\ bookings' = bookings]_vars

\* a booking for today exists and a create for yesterday has been rejected
\* for its date
C15_Witness ==
  /\ \E i \in BookingIds : bookings[i].bookingDate = today
  /\ \E p \in Procs :
       /\ proc[p].pc = "done"
       /\ proc[p].op = "POST"
       /\ proc[p].req.bookingDate = today - 1
       /\ proc[p].resp.error = "Cannot book in the past"

-----------------------------------------------------------------------------
(* Closed days *)

\* C16 as stated (closed day): when the opening-hours entry of the booking
\* date's day of week has isClosed set, or there is no entry for that day,
\* every create for that date is rejected with the closed-day reason, for
\* every bookingTime, and no booking is inserted.
C16_ClosedDayReason ==
  [][\A p \in Procs :
       ( /\ CreateBegun(p)
         /\ WellFormedCreate(CreateOf(proc'[p]))
         /\ ClosedDay(CreateOf(proc'[p])) )
       => /\ Rejected(proc'[p])
          /\ proc'[p].resp.error = "Restaurant is closed on this day"
          /\ bookings' = bookings]_vars

\* C16 as amended (the checks made before the closed-day check answer first):
\* every create for a date on which the restaurant is closed is rejected and
\* inserts no booking, for every bookingTime; the response is 400 with the
\* closed-day reason whenever the create has all required fields, a
\* well-formed email, a party size in [1,20] and a date that is neither past
\* nor beyond the horizon.
C16_ClosedDayRejected ==
  [][\A p \in Procs :
       (CreateBegun(p) /\ ClosedDay(CreateOf(proc'[p])))
       => LET b == CreateOf(proc'[p])
          IN /\ Rejected(proc'[p])
             /\ bookings' = bookings
             /\ (WellFormedCreate(b) /\ \A k \in {1, 2, 3} : ~RuleViolated(k, b))
                => /\ proc'[p].resp.code = 400
                   /\ proc'[p].resp.error = "Restaurant is closed on this day"]_vars

\* creates inside the hours of the other days have been rejected as closed:
\* this one for a day whose entry has isClosed set
C16_Witness ==
  \E p \in Procs :
    /\ proc[p].pc = "done"
    /\ proc[p].op = "POST"
    /\ proc[p].resp.code = 400
    /\ proc[p].resp.error = "Restaurant is closed on this day"
    /\ proc[p].req.bookingTime = <<23, 0>>
    /\ \E i \in 1..Len(OpeningHoursRows) :
         /\ OpeningHoursRows[i].restaurantId = proc[p].req.restaurantId
         /\ OpeningHoursRows[i].dayOfWeek = proc[p].req.bookingDate % 7
         /\ OpeningHoursRows[i].isClosed

-----------------------------------------------------------------------------
(* What an update (PUT) writes *)

\* the handler of an update (PUT) of client p takes a step
UpdateStep(p) ==
  /\ proc'[p] # proc[p]
  /\ \/ proc[p].pc \in {"put_customer", "put_conflict", "put_write"}
     \/ /\ proc[p] = Idle
        /\ \/ proc'[p].pc \in {"put_customer", "put_conflict", "put_write"}
           \/ proc'[p].pc = "done" /\ proc'[p].op = "PUT"

\* the id and the body of the update whose handler takes the step
SteppedId(p) == IF proc[p] = Idle THEN UpdateIdOf(proc'[p]) ELSE proc[p].id

SteppedBody(p) == IF proc[p] = Idle THEN UpdateBodyOf(proc'[p]) ELSE proc[p].body

\* the fields of a booking other than specialRequests
Frame(b) ==
  [id |-> b.id, restaurantId |-> b.restaurantId, tableId |-> b.tableId,
   customerId |-> b.customerId, bookingDate |-> b.bookingDate,
   bookingTime |-> b.bookingTime, partySize |-> b.partySize, status |-> b.status]

\* C17 (special-requests-only update): an update whose body contains only
\* specialRequests leaves the booking's date, time, table, party size, status,
\* restaurant and customer unchanged, and changes no other booking and no
\* customer record; when it succeeds the booking holds the new text.
C17_SpecialRequestsOnly ==
  [][\A p \in Procs :
       (UpdateStep(p) /\ SteppedBody(p).has = {"specialRequests"})
       => /\ customers' = customers
          /\ Len(bookings') = Len(bookings)
          /\ \A i \in BookingIds :
               /\ Frame(bookings'[i]) = Frame(bookings[i])
               /\ bookings[i].id # SteppedId(p) => bookings'[i] = bookings[i]
          /\ (proc'[p].pc = "done" /\ proc'[p].resp.code = 200)
             => \A i \in BookingIds :
                  bookings'[i].id = SteppedId(p)
                  => bookings'[i].specialRequests
                       = OrNull(SteppedBody(p).specialRequests)]_vars

\* an update with only specialRequests has succeeded and the booking holds
\* the new text
C17_Witness ==
  \E p \in Procs :
    /\ proc[p].pc = "done"
    /\ proc[p].op = "PUT"
    /\ proc[p].resp.code = 200
    /\ proc[p].req.body.has = {"specialRequests"}
    /\ proc[p].req.body.specialRequests = "window"
    /\ \E i \in BookingIds :
         /\ bookings[i].id = proc[p].req.id
         /\ bookings[i].specialRequests = "window"

\* C18 (rejected update writes nothing): an update (PUT) rejected with 400,
\* 404 or 409 changes neither the booking nor the customer record, also when
\* customer fields come with an invalid date, time, party size or table: no
\* step of the handler both writes and ends in such a rejection.
C18_RejectedUpdateWritesNothing ==
  [][\A p \in Procs :
       ( /\ UpdateStep(p)
         /\ Rejected(proc'[p])
         /\ proc'[p].resp.code \in {400, 404, 409} )
       => /\ bookings' = bookings
          /\ customers' = customers]_vars

-----------------------------------------------------------------------------
(* What a create (POST) writes *)

\* the handler of a create of client p takes a step
CreateStep(p) ==
  \/ CreateBegun(p)
  \/ /\ proc'[p] # proc[p]
     /\ proc[p].pc \in {"post_findCustomer", "post_insertCustomer",
                        "post_customerDay", "post_slot", "post_insert"}

\* the body of the create whose handler takes the step
SteppedCreate(p) == IF proc[p] = Idle THEN CreateOf(proc'[p]) ELSE proc[p].body

\* the emails of the customer records
CustomerEmails == {customers[i].email : i \in 1..Len(customers)}

\* C19 (rejected create writes no booking): a create rejected with 400, 404
\* or 409 leaves the bookings unchanged; a create writes a booking only on the
\* step that answers 201, and the only other write of a create is one new
\* customer record, for an email no customer record had, made once, before
\* the conflict checks.
C19_RejectedCreateWritesNoBooking ==
  [][\A p \in Procs :
       CreateStep(p)
       => /\ (Rejected(proc'[p]) /\ proc'[p].resp.code \in {400, 404, 409})
             => /\ bookings' = bookings
                /\ customers' = customers
          /\ bookings' # bookings
             => /\ proc'[p].pc = "done" /\ proc'[p].resp.code = 201
                /\ Len(bookings') = Len(bookings) + 1
                /\ SubSeq(bookings', 1, Len(bookings)) = bookings
          /\ customers' # customers
             => /\ proc[p].pc = "post_insertCustomer"
                /\ proc'[p].pc = "post_customerDay"
                /\ Len(customers') = Len(customers) + 1
                /\ SubSeq(customers', 1, Len(customers)) = customers
                /\ customers'[Len(customers')].email = SteppedCreate(p).customerEmail
                /\ SteppedCreate(p).customerEmail \notin CustomerEmails]_vars

\* a create has been rejected with 409 and left behind the customer record it
\* made, which has no booking
C19_Witness ==
  \E p \in Procs :
    /\ proc[p].pc = "done"
    /\ proc[p].op = "POST"
    /\ proc[p].resp.code = 409
    /\ \E i \in 1..Len(customers) :
         /\ customers[i].email = proc[p].req.customerEmail
         /\ \A j \in BookingIds : bookings[j].customerId # customers[i].id

-----------------------------------------------------------------------------
(* The customer records *)

\* C20 (customer uniqueness by email): in every reachable state no two
\* customer records have the same email, also after two concurrent creates
\* with the same unseen email and after an update that changes a customer's
\* email; no request removes a customer record.
C20_CustomersUniqueByEmail ==
  [][/\ \A i, j \in 1..Len(customers') :
          customers'[i].email = customers'[j].email => i = j
     /\ Len(customers') >= Len(customers)
     /\ \A i \in 1..Len(customers) : customers'[i].id = customers[i].id]_vars

\* one of two concurrent creates with the same unseen email has failed on the
\* unique index, and an update to the email of another customer has failed
\* on it too
C20_Witness ==
  /\ \E p \in Procs :
       /\ proc[p].pc = "done"
       /\ proc[p].op = "POST"
       /\ proc[p].resp.code = 500
       /\ proc[p].req.customerEmail \in CustomerEmails
  /\ \E q \in Procs :
       /\ proc[q].pc = "done"
       /\ proc[q].op = "PUT"
       /\ proc[q].resp.code = 500
       /\ "customerEmail" \in proc[q].req.body.has
       /\ \E i \in 1..Len(customers) :
            /\ customers[i].email = proc[q].req.body.customerEmail
            /\ \E j \in BookingIds :
                 /\ bookings[j].id = proc[q].req.id
                 /\ bookings[j].customerId # customers[i].id

-----------------------------------------------------------------------------
(* Booking records are kept *)

\* a booking without its status
Unstatused(b) ==
  [id |-> b.id, restaurantId |-> b.restaurantId, tableId |-> b.tableId,
   customerId |-> b.customerId, bookingDate |-> b.bookingDate,
   bookingTime |-> b.bookingTime, partySize |-> b.partySize,
   specialRequests |-> b.specialRequests]

\* the write of a cancel (single DELETE or bulk DELETE) of client p succeeds
\* on this step
CancelWritten(p) ==
  /\ proc[p].pc \in {"delete_write", "bulk_delete_write"}
  /\ proc'[p].pc = "done"
  /\ proc'[p].resp.code = 200

\* C21 (no physical deletion): the set of booking ids only grows: every step
\* keeps every booking record under its id; a successful cancel (single
\* DELETE or bulk DELETE) sets the status of its bookings to cancelled,
\* changes nothing else and removes no record.
C21_NoPhysicalDeletion ==
  [][/\ Len(bookings') >= Len(bookings)
     /\ \A i \in BookingIds : bookings'[i].id = bookings[i].id
     /\ \A p \in Procs :
          CancelWritten(p)
          => /\ Len(bookings') = Len(bookings)
             /\ \A i \in BookingIds :
                  /\ Unstatused(bookings'[i]) = Unstatused(bookings[i])
                  /\ bookings'[i].status =
                       IF bookings[i].id \in TargetIds(proc'[p])
                       THEN "cancelled" ELSE bookings[i].status]_vars

\* a bulk cancel of two bookings has succeeded, and both records are there,
\* cancelled
C21_Witness ==
  \E p \in Procs :
    /\ proc[p].pc = "done"
    /\ proc[p].op = "BULK_DELETE"
    /\ proc[p].resp.code = 200
    /\ Cardinality(SeqToSet(proc[p].req.ids)) = 2
    /\ \A id \in SeqToSet(proc[p].req.ids) :
         \E i \in BookingIds : bookings[i].id = id /\ bookings[i].status = "cancelled"

-----------------------------------------------------------------------------
(* Response codes *)

\* the booking an update asks for: the supplied fields over the loaded row x
Effective(body, x) ==
  [restaurantId |-> x.restaurantId, customerId |-> x.customerId,
   customerEmail |-> "a@x.io",
   tableId |-> IF "tableId" \in body.has THEN body.tableId ELSE x.tableId,
   bookingDate |-> IF "bookingDate" \in body.has /\ body.bookingDate # 0
                   THEN body.bookingDate ELSE x.bookingDate,
   bookingTime |-> IF "bookingTime" \in body.has /\ body.bookingTime # <<>>
                   THEN body.bookingTime ELSE x.bookingTime,
   partySize |-> IF "partySize" \in body.has THEN body.partySize ELSE x.partySize]

\* the rules an update has to be checked against: those on the fields it
\* supplies
RulesOf(body) ==
  (IF {"bookingDate", "bookingTime"} \cap body.has # {} THEN {1, 2, 4, 5} ELSE {})
    \cup (IF "partySize" \in body.has THEN {3, 7} ELSE {})
    \cup (IF "tableId" \in body.has THEN {6, 7} ELSE {})

\* the confirmed bookings other than `id` on the slot of b
SlotHolders(b, id) ==
  {i \in BookingIds :
     /\ bookings[i].id # id
     /\ bookings[i].status = "confirmed"
     /\ Slot(bookings[i]) = Slot(b)}

\* the confirmed bookings other than `id` of the customer at the restaurant
\* on the date of b
DayHolders(b, customerId, id) ==
  {i \in BookingIds :
     /\ bookings[i].id # id
     /\ bookings[i].status = "confirmed"
     /\ bookings[i].customerId = customerId
     /\ bookings[i].restaurantId = b.restaurantId
     /\ bookings[i].bookingDate = b.bookingDate}

\* a create of client p: rule violations give 400, an unknown restaurant or
\* table 404, a conflict 409
CreateCodes(p) ==
  /\ (CreateBegun(p) /\ WellFormedCreate(CreateOf(proc'[p])))
     => LET b == CreateOf(proc'[p])
        IN /\ (KnownTable(b) /\ \E k \in 1..7 : RuleViolated(k, b))
              => Rejected(proc'[p]) /\ proc'[p].resp.code = 400
           /\ (~KnownTable(b) /\ \A k \in 1..5 : ~RuleViolated(k, b))
              => Rejected(proc'[p]) /\ proc'[p].resp.code = 404
  /\ ( /\ proc[p].pc = "post_customerDay"
       /\ proc'[p] # proc[p]
       /\ DayHolders(proc[p].body, proc[p].customerId, 0) # {} )
     => Rejected(proc'[p]) /\ proc'[p].resp.code = 409
  /\ ( /\ proc[p].pc = "post_slot"
       /\ proc'[p] # proc[p]
       /\ SlotHolders(proc[p].body, 0) # {} )
     => Rejected(proc'[p]) /\ proc'[p].resp.code = 409

\* an update of client p: an unknown booking or table gives 404, a violation
\* of a rule on the supplied fields 400, a conflict of the booking asked for
\* 409
UpdateCodes(p) ==
  /\ (UpdateStep(p) /\ proc[p] = Idle /\ ~Known(SteppedId(p)))
     => Rejected(proc'[p]) /\ proc'[p].resp.code = 404
  /\ ( /\ UpdateChecked(p)
       /\ proc[p] = Idle => Known(SteppedId(p))
       /\ LoadedBy(p).status # "cancelled"
       /\ proc'[p].pc = "done" => proc'[p].resp.code # 500 )
     => LET body == SteppedBody(p)
            b == Effective(body, LoadedBy(p))
        IN /\ (KnownTable(b) /\ \E k \in RulesOf(body) : RuleViolated(k, b))
              => Rejected(proc'[p]) /\ proc'[p].resp.code = 400
           /\ (~KnownTable(b) /\ \A k \in RulesOf(body) : ~RuleViolated(k, b))
              => Rejected(proc'[p]) /\ proc'[p].resp.code = 404
           /\ ( /\ {"bookingDate", "bookingTime", "tableId"} \cap body.has # {}
                /\ LoadedBy(p).status = "confirmed"
                /\ \/ SlotHolders(b, SteppedId(p)) # {}
                   \/ DayHolders(b, b.customerId, SteppedId(p)) # {} )
              => \/ Rejected(proc'[p])
                 \/ proc'[p].pc = "put_conflict"
  /\ ( /\ proc[p].pc = "put_conflict"
       /\ proc'[p] # proc[p]
       /\ LET b == Effective(proc[p].body, proc[p].existing)
          IN /\ proc[p].existing.status = "confirmed"
             /\ \/ SlotHolders(b, proc[p].id) # {}
                \/ DayHolders(b, b.customerId, proc[p].id) # {} )
     => Rejected(proc'[p]) /\ proc'[p].resp.code = 409

\* C22 (response codes identify the rejection class): on create and update a
\* slot or customer-day conflict yields 409, a business-rule violation (past
\* date, horizon, party size, closed day, outside hours, inactive table,
\* capacity) yields 400, an unknown restaurant, booking or table yields 404,
\* and only a successful create yields 201.
C22_CodesIdentifyClass ==
  [][\A p \in Procs :
       /\ CreateCodes(p)
       /\ UpdateCodes(p)
       /\ (proc'[p] # proc[p] /\ proc'[p].pc = "done" /\ proc'[p].resp.code = 201)
          => /\ proc'[p].op = "POST"
             /\ Len(bookings') = Len(bookings) + 1]_vars

-----------------------------------------------------------------------------
(* Concurrent updates *)

\* an update of client p that has ended with 200
UpdateEnded(p) ==
  /\ proc[p].pc = "done"
  /\ proc[p].op = "PUT"
  /\ proc[p].resp.code = 200

\* C23 (concurrent updates to different bookings): two updates (PUT) on two
\* different booking ids whose reads and writes interleave end as in some
\* serial execution of the two; in a serial execution the second of two
\* updates moving two confirmed bookings onto the same free slot is rejected,
\* so never do both hold a 200 with both bookings confirmed on one slot.
C23_UpdatesSerializable ==
  \A p, q \in Procs :
    ( /\ p # q
      /\ UpdateEnded(p)
      /\ UpdateEnded(q)
      /\ proc[p].req.id # proc[q].req.id
      /\ Known(proc[p].req.id)
      /\ Known(proc[q].req.id) )
    => ~( /\ StatusOfId(proc[p].req.id) = "confirmed"
          /\ StatusOfId(proc[q].req.id) = "confirmed"
          /\ Slot(RowOfId(proc[p].req.id)) = Slot(RowOfId(proc[q].req.id)) )

\* a bulk cancel of client p is between its checks and its write
BulkCancelInFlight(p) ==
  \/ proc[p].pc = "bulk_delete_write"
  \/ proc[p].pc = "bulk_patch_write" /\ proc[p].status = "cancelled"

\* C30 (a bulk status change is one logical operation): no other request's
\* write takes effect between a bulk request's legality checks and its write:
\* while a bulk cancel is in flight no single status PATCH marks one of the
\* listed bookings completed (which the bulk cancel would then overwrite with
\* cancelled).
C30_BulkIsOneOperation ==
  [][\A p \in Procs :
       BulkCancelInFlight(p)
       => \A i \in BookingIds :
            ( /\ bookings[i].id \in SeqToSet(proc[p].ids)
              /\ bookings'[i].status = "completed" )
            => bookings[i].status = "completed"]_vars

-----------------------------------------------------------------------------
(* Status changes out of cancelled and completed *)

\* client p sends a single or bulk status PATCH on this step
PatchBegun(p) == Begun(p) /\ OpOf(proc'[p]) \in {"PATCH", "BULK_PATCH"}

\* the targeted bookings the request would move out of cancelled or completed
MovedOutOfTerminal(r) ==
  {id \in TargetIds(r) :
     /\ Known(id)
     /\ StatusOfId(id) \in {"cancelled", "completed"}
     /\ StatusOfId(id) # TargetStatus(r)}

\* the targeted bookings whose cancelled or completed status the request
\* repeats
RepeatedTerminal(r) ==
  {id \in TargetIds(r) :
     /\ Known(id)
     /\ StatusOfId(id) \in {"cancelled", "completed"}
     /\ StatusOfId(id) = TargetStatus(r)}

TerminalRuleReasons ==
  {"Cannot change status of cancelled booking",
   "Cannot change status of completed booking",
   "Cannot change status of cancelled/completed bookings"}

\* C24 as stated (status changes out of a terminal status): a single or bulk
\* status PATCH (naming each id once) that asks to move a cancelled or
\* completed booking to a different status is rejected with 400 and leaves
\* the bookings unchanged; a request repeating the current terminal status is
\* not rejected by this rule.
C24_TerminalChangeRejected ==
  [][\A p \in Procs :
       /\ (PatchBegun(p) /\ DistinctIds(proc'[p]) /\ MovedOutOfTerminal(proc'[p]) # {})
          => /\ Rejected(proc'[p])
             /\ proc'[p].resp.code = 400
             /\ bookings' = bookings
       /\ ( /\ PatchBegun(p)
            /\ RepeatedTerminal(proc'[p]) # {}
            /\ MovedOutOfTerminal(proc'[p]) = {} )
          => ~(Rejected(proc'[p]) /\ proc'[p].resp.error \in TerminalRuleReasons)]_vars

\* C24 as amended (a bulk request with an unknown or repeated id is answered
\* 404 first): a single or bulk status PATCH that asks to move a cancelled or
\* completed booking to a different status is rejected and leaves the
\* bookings unchanged, with 400, or with 404 when a bulk request with a valid
\* status also names an unknown or repeated id; a request that repeats the
\* terminal status of its bookings and moves none out of one is not rejected
\* by this rule, and is accepted when it asks for completed and names
\* existing bookings, each once.
C24_TerminalChangeChecked ==
  [][\A p \in Procs :
       /\ (PatchBegun(p) /\ MovedOutOfTerminal(proc'[p]) # {})
          => /\ Rejected(proc'[p])
             /\ proc'[p].resp.code =
                  (IF BulkIdsNotFound(proc'[p]) /\ TargetStatus(proc'[p]) \in validStatuses
                   THEN 404 ELSE 400)
             /\ bookings' = bookings
       /\ ( /\ PatchBegun(p)
            /\ RepeatedTerminal(proc'[p]) # {}
            /\ MovedOutOfTerminal(proc'[p]) = {} )
          => /\ ~(Rejected(proc'[p]) /\ proc'[p].resp.error \in TerminalRuleReasons)
             /\ ( /\ TargetStatus(proc'[p]) = "completed"
                  /\ DistinctIds(proc'[p])
                  /\ \A id \in TargetIds(proc'[p]) : Known(id) )
                => proc'[p].pc \in {"patch_write", "bulk_patch_write"}]_vars

\* a bulk PATCH of two bookings, one of them completed, to no_show has been
\* rejected for the status rule
C24_Witness ==
  \E p \in Procs :
    /\ proc[p].pc = "done"
    /\ proc[p].op = "BULK_PATCH"
    /\ proc[p].resp.code = 400
    /\ proc[p].resp.error = "Cannot change status of cancelled/completed bookings"
    /\ proc[p].req.status = "no_show"
    /\ \E id \in proc[p].resp.ids : Known(id) /\ StatusOfId(id) = "completed"
    /\ Cardinality(SeqToSet(proc[p].req.ids)) = 2

-----------------------------------------------------------------------------
(* What a successful create writes *)

\* the create of client p ends with 201 on this step
CreateSucceeds(p) ==
  /\ CreateStep(p)
  /\ proc'[p].pc = "done"
  /\ proc'[p].resp.code = 201

\* C25 (a successful create inserts one confirmed booking): a successful
\* create inserts exactly one new booking, whose status is confirmed and
\* whose restaurantId, tableId, bookingDate, bookingTime and partySize equal
\* the requested values, and changes no existing booking; no other step of
\* a create writes a booking.
C25_CreateInsertsOneConfirmed ==
  [][\A p \in Procs :
       /\ CreateSucceeds(p)
          => LET b == proc'[p].req
                 new == bookings'[Len(bookings')]
             IN /\ Len(bookings') = Len(bookings) + 1
                /\ \A i \in BookingIds : bookings'[i] = bookings[i]
                /\ new.id = proc'[p].resp.bookingId
                /\ \A i \in BookingIds : bookings[i].id # new.id
                /\ new.status = "confirmed"
                /\ new.restaurantId = b.restaurantId
                /\ new.tableId = b.tableId
                /\ new.bookingDate = b.bookingDate
                /\ new.bookingTime = b.bookingTime
                /\ new.partySize = b.partySize
       /\ (CreateStep(p) /\ ~CreateSucceeds(p)) => bookings' = bookings]_vars

\* a create has succeeded next to an existing booking: the response names the
\* second booking, which is confirmed and holds the requested values
C25_Witness ==
  \E p \in Procs :
    /\ proc[p].pc = "done"
    /\ proc[p].op = "POST"
    /\ proc[p].resp.code = 201
    /\ proc[p].resp.bookingId = 2
    /\ Len(bookings) = 2
    /\ bookings[2].status = "confirmed"
    /\ Slot(bookings[2]) = Slot(proc[p].req)
    /\ bookings[2].partySize = proc[p].req.partySize

-----------------------------------------------------------------------------
(* The conflict check of an update *)

\* the update supplies a table, a date or a time
SuppliesSlot(body) ==
  \/ "tableId" \in body.has
  \/ "bookingDate" \in body.has /\ body.bookingDate # 0
  \/ "bookingTime" \in body.has /\ body.bookingTime # <<>>

\* the validation of an update that supplies a slot field, of a booking that
\* is not cancelled, runs on this step
SlotUpdateChecked(p) ==
  /\ UpdateChecked(p)
  /\ proc[p] = Idle => Known(SteppedId(p))
  /\ LoadedBy(p).status # "cancelled"
  /\ proc'[p].pc = "done" => proc'[p].resp.code # 500
  /\ SuppliesSlot(SteppedBody(p))

\* the conflict query of an update of client p runs on this step, and answers
\* for the effective slot: 409 and no write when the update changes the slot
\* and another confirmed booking holds the new one, the write when no other
\* confirmed booking holds it
ConflictAnswered(p) ==
  (proc[p].pc = "put_conflict" /\ proc'[p] # proc[p])
  => LET b == Effective(proc[p].body, proc[p].existing)
     IN /\ (SlotHolders(b, proc[p].id) # {} /\ Slot(b) # Slot(proc[p].existing))
           => /\ Rejected(proc'[p])
              /\ proc'[p].resp.code = 409
              /\ bookings' = bookings
        /\ SlotHolders(b, proc[p].id) = {} => proc'[p].pc = "put_write"

\* C26 as stated (conflict check on the effective slot): an update (PUT) that
\* changes any of table, date or time is rejected with 409, leaving the
\* booking unchanged, whenever a different confirmed booking holds the
\* effective (table, date, time); the booking itself is never counted.
C26_EffectiveSlotConflict ==
  [][\A p \in Procs :
       /\ SlotUpdateChecked(p)
          => LET b == Effective(SteppedBody(p), LoadedBy(p))
             IN (SlotHolders(b, SteppedId(p)) # {} /\ Slot(b) # Slot(LoadedBy(p)))
                => proc'[p].pc = "put_conflict"
       /\ ConflictAnswered(p)]_vars

\* C26 as amended (the validation of the supplied fields comes first): an
\* update that supplies a table, a date or a time and passes the validation
\* of its fields (date rules, opening hours, party size, table) goes on to
\* the conflict check on the effective slot, which rejects it with 409 and
\* leaves the booking unchanged whenever the update changes the slot and a
\* different confirmed booking holds the new one, and which never counts the
\* booking itself; an update rejected by the validation leaves the booking
\* unchanged as well.
C26_EffectiveSlotChecked ==
  [][\A p \in Procs :
       /\ SlotUpdateChecked(p)
          => LET body == SteppedBody(p)
                 b == Effective(body, LoadedBy(p))
             IN /\ (KnownTable(b) /\ \A k \in RulesOf(body) : ~RuleViolated(k, b))
                   => proc'[p].pc = "put_conflict"
                /\ Rejected(proc'[p]) => bookings' = bookings
       /\ ConflictAnswered(p)]_vars

\* an update of the table alone has been rejected with 409: another confirmed
\* booking holds the new table at the booking's date and time
C26_Witness ==
  \E p \in Procs :
    /\ proc[p].pc = "done"
    /\ proc[p].op = "PUT"
    /\ proc[p].resp.code = 409
    /\ proc[p].req.body.has = {"tableId"}
    /\ \E i, j \in BookingIds :
         /\ bookings[i].id = proc[p].req.id
         /\ bookings[j].id # proc[p].req.id
         /\ bookings[j].status = "confirmed"
         /\ bookings[j].tableId = proc[p].req.body.tableId
         /\ bookings[i].tableId # proc[p].req.body.tableId
         /\ bookings[j].bookingDate = bookings[i].bookingDate
         /\ bookings[j].bookingTime = bookings[i].bookingTime

-----------------------------------------------------------------------------
(* Updates of a cancelled booking *)

\* C27 (no update of a cancelled booking): an update (PUT) on a booking whose
\* status is cancelled is rejected with 400 on the step that loads the
\* booking, before any write: neither the bookings nor the customer records
\* change, whatever fields the request carries.
C27_CancelledNotModified ==
  [][\A p \in Procs :
       ( /\ UpdateStep(p)
         /\ proc[p] = Idle
         /\ Known(SteppedId(p))
         /\ StatusOfId(SteppedId(p)) = "cancelled" )
       => /\ Rejected(proc'[p])
          /\ proc'[p].resp.code = 400
          /\ proc'[p].resp.error = "Cannot modify cancelled booking"
          /\ bookings' = bookings
          /\ customers' = customers]_vars

\* an update carrying a new customer name and a date has been rejected for
\* the cancelled status of its booking, and the customer keeps the old name
C27_Witness ==
  \E p \in Procs :
    /\ proc[p].pc = "done"
    /\ proc[p].op = "PUT"
    /\ proc[p].resp.code = 400
    /\ proc[p].resp.error = "Cannot modify cancelled booking"
    /\ "customerName" \in proc[p].req.body.has
    /\ \E i \in BookingIds :
         /\ bookings[i].id = proc[p].req.id
         /\ bookings[i].status = "cancelled"
         /\ customers[bookings[i].customerId].name # proc[p].req.body.customerName

-----------------------------------------------------------------------------
(* Which bookings block a slot *)

\* the bookings on the slot of create b
OnSlotOf(b) == {i \in BookingIds : Slot(bookings[i]) = Slot(b)}

\* C28 (only confirmed bookings block a slot): a create that has passed the
\* availability checks is not rejected for a slot conflict when every
\* existing booking on its (table, date, time) is cancelled, completed or
\* no_show: it goes on to its insert, which answers 201; it is rejected with
\* 409 when a confirmed booking is on the slot.
C28_OnlyConfirmedBlocks ==
  [][\A p \in Procs :
       /\ (proc[p].pc = "post_slot" /\ proc'[p] # proc[p])
          => IF \A i \in OnSlotOf(proc[p].body) :
                  bookings[i].status \in {"cancelled", "completed", "no_show"}
             THEN proc'[p].pc = "post_insert"
             ELSE Rejected(proc'[p]) /\ proc'[p].resp.code = 409
       /\ (proc[p].pc = "post_insert" /\ proc'[p] # proc[p])
          => /\ proc'[p].pc = "done"
             /\ proc'[p].resp.code = 201
             /\ Len(bookings') = Len(bookings) + 1]_vars

\* after a booking was cancelled another customer has booked its slot
C28_Witness ==
  \E p \in Procs :
    /\ proc[p].pc = "done"
    /\ proc[p].op = "POST"
    /\ proc[p].resp.code = 201
    /\ \E i, j \in BookingIds :
         /\ bookings[j].id = proc[p].resp.bookingId
         /\ bookings[j].status = "confirmed"
         /\ bookings[i].status = "cancelled"
         /\ Slot(bookings[i]) = Slot(bookings[j])
         /\ bookings[i].customerId # bookings[j].customerId

-----------------------------------------------------------------------------
(* The customer record of a rejected create *)

\* a customer record with the email exists after the step
EmailKnownAfter(email) ==
  \E i \in 1..Len(customers') : customers'[i].email = email

\* C29 as stated (customer before the availability checks): a create carrying
\* a previously unseen email that is rejected for a business-rule violation
\* (e.g. capacity exceeded or closed day) leaves a new customer record behind.
C29_CustomerBeforeChecks ==
  [][\A p \in Procs :
       ( /\ CreateBegun(p)
         /\ WellFormedCreate(CreateOf(proc'[p]))
         /\ KnownTable(CreateOf(proc'[p]))
         /\ \E k \in 1..7 : RuleViolated(k, CreateOf(proc'[p]))
         /\ CreateOf(proc'[p]).customerEmail \notin CustomerEmails )
       => EmailKnownAfter(CreateOf(proc'[p]).customerEmail)]_vars

\* C29 as amended (availability checks before the customer): create runs the
\* availability checks before it looks for the customer, so a create that is
\* rejected by them (400, or 404 for an unknown restaurant or table) writes
\* no customer record, and one with an unseen email leaves none behind; the
\* customer record is written after the checks, and a create rejected for a
\* customer-day or slot conflict (409) leaves the record of its email behind.
C29_ChecksBeforeCustomer ==
  [][\A p \in Procs :
       /\ (CreateBegun(p) /\ Rejected(proc'[p]))
          => /\ customers' = customers
             /\ CreateOf(proc'[p]).customerEmail \notin CustomerEmails
                => ~EmailKnownAfter(CreateOf(proc'[p]).customerEmail)
       /\ (CreateStep(p) /\ customers' # customers)
          => proc[p].pc = "post_insertCustomer"
       /\ ( /\ CreateStep(p)
            /\ proc[p].pc \in {"post_customerDay", "post_slot"}
            /\ Rejected(proc'[p]) )
          => /\ proc'[p].resp.code = 409
             /\ EmailKnownAfter(proc[p].body.customerEmail)]_vars

\* a create with an unseen email has been rejected for the capacity of the
\* table and no customer record has its email
C29_Witness ==
  \E p \in Procs :
    /\ proc[p].pc = "done"
    /\ proc[p].op = "POST"
    /\ proc[p].resp.code = 400
    /\ proc[p].resp.error = "Party size exceeds table capacity"
    /\ proc[p].req.customerEmail \notin CustomerEmails
-----------------------------------------------------------------------------
(* Tables *)

\* the table an update with body `body` of the loaded booking x asks for, as
\* the restaurant and table of a create
TableAsked(body, x) == [restaurantId |-> x.restaurantId, tableId |-> body.tableId]

\* the handler of the update of client p goes on to its conflict query or to
\* its write on this step
UpdateAdmitted(p) == proc'[p].pc \in {"put_conflict", "put_write"}

-----------------------------------------------------------------------------
(* The capacity of the table of a create *)

\* a create that passes every check made before the capacity is compared
BeforeCapacityPass(b) ==
  /\ WellFormedCreate(b)
  /\ KnownTable(b)
  /\ \A k \in 1..6 : ~RuleViolated(k, b)

\* C32 (capacity on create): a create whose partySize is within [1,20] but
\* greater than the capacity of the requested table, with all earlier checks
\* passing, is rejected with 400 and a reason that names the table's capacity
\* as the maximum, and inserts no booking.
C32_CapacityOnCreate ==
  [][\A p \in Procs :
       ( /\ CreateBegun(p)
         /\ BeforeCapacityPass(CreateOf(proc'[p]))
         /\ RuleViolated(7, CreateOf(proc'[p])) )
       => /\ Rejected(proc'[p])
          /\ proc'[p].resp.code = 400
          /\ proc'[p].resp.error = "Party size exceeds table capacity"
          /\ \A i \in TableEntries(CreateOf(proc'[p])) :
               proc'[p].resp.info = TableRows[i].capacity
          /\ bookings' = bookings]_vars

\* a create for 5 on a table of capacity 4 has been rejected with the reason
\* naming 4 as the maximum
C32_Witness ==
  \E p \in Procs :
    /\ proc[p].pc = "done"
    /\ proc[p].op = "POST"
    /\ proc[p].req.partySize = 5
    /\ TableById(proc[p].req.tableId).capacity = 4
    /\ proc[p].resp.code = 400
    /\ proc[p].resp.error = "Party size exceeds table capacity"
    /\ proc[p].resp.info = 4
-----------------------------------------------------------------------------
(* The party size *)

\* a party size outside [1, 20]
OutOfRange(partySize) == partySize < 1 \/ partySize > 20

-----------------------------------------------------------------------------
(* The status values *)

-----------------------------------------------------------------------------
(* Slot exclusivity in sequential executions *)

\* no two confirmed bookings of the rows share a slot
SlotsExclusive(rows) ==
  \A i, j \in 1..Len(rows) :
    (i < j /\ rows[i].status = "confirmed" /\ rows[j].status = "confirmed")
      => Slot(rows[i]) # Slot(rows[j])

\* C35 (sequential slot exclusivity): in a sequential execution of creates,
\* updates (PUT) and cancels (DELETE, single or bulk) that starts with no two
\* confirmed bookings on the same slot, every step leaves no two confirmed
\* bookings on the same (tableId, bookingDate, bookingTime).
C35_SequentialSlotExclusivity ==
  [][SlotsExclusive(bookings) => SlotsExclusive(bookings')]_vars

\* an update that moves a confirmed booking onto the slot of another
\* confirmed booking has been rejected with 409, and the two are on
\* different slots
C35_Witness ==
  \E p \in Procs :
    /\ proc[p].pc = "done"
    /\ proc[p].op = "PUT"
    /\ proc[p].resp.code = 409
    /\ \E i, j \in BookingIds :
         /\ bookings[i].id = proc[p].req.id
         /\ i # j
         /\ Confirmed(i)
         /\ Confirmed(j)
         /\ Slot(Effective(proc[p].req.body, bookings[i])) = Slot(bookings[j])
         /\ Slot(bookings[i]) # Slot(bookings[j])
-----------------------------------------------------------------------------
(* Slot exclusivity and status changes *)

\* the write of a single or bulk status PATCH of client p to confirmed
\* succeeds on this step
ConfirmWritten(p) ==
  /\ proc[p].pc \in {"patch_write", "bulk_patch_write"}
  /\ proc[p].status = "confirmed"
  /\ proc'[p].pc = "done"
  /\ proc'[p].resp.code = 200

\* C36 (status transitions preserve slot exclusivity): in sequential
\* execution a single or bulk status PATCH that sets a booking's status to
\* confirmed never produces a state in which two confirmed bookings share the
\* same (tableId, bookingDate, bookingTime), also when the booking was marked
\* no_show and its slot was booked again in between.
C36_ConfirmKeepsSlotsExclusive ==
  [][\A p \in Procs :
       (ConfirmWritten(p) /\ SlotsExclusive(bookings))
       => SlotsExclusive(bookings')]_vars
-----------------------------------------------------------------------------
(* The table and the restaurant of a booking *)

\* the table of b is a table of the restaurant of b
OwnTable(b) ==
  \E j \in 1..Len(TableRows) :
    TableRows[j].id = b.tableId /\ TableRows[j].restaurantId = b.restaurantId

\* the table of b is a table of another restaurant
ForeignTable(b) ==
  \E j \in 1..Len(TableRows) :
    TableRows[j].id = b.tableId /\ TableRows[j].restaurantId # b.restaurantId

\* the customer fields of an update body pass their checks
CustomerFieldsPass(body) ==
  /\ ("customerName" \in body.has /\ body.customerName # "") => Len(body.customerName) >= 2
  /\ ("customerEmail" \in body.has /\ body.customerEmail # "")
       => body.customerEmail \in {"a@x.io", "b@x.io"}
  /\ ("customerPhone" \in body.has /\ body.customerPhone # "") => Len(body.customerPhone) >= 10

\* the update with body `body` of the loaded booking x passes the checks made
\* before the table is looked up: the booking is not cancelled, the customer
\* fields, the date and time and the party size pass
BeforeTablePass(body, x) ==
  /\ x.status # "cancelled"
  /\ CustomerFieldsPass(body)
  /\ \A k \in RulesOf(body) \cap {1, 2, 3, 4, 5} : ~RuleViolated(k, Effective(body, x))

\* C37 as stated (table belongs to restaurant): every booking's tableId
\* refers to a table of the booking's own restaurantId; a create or an update
\* of an existing booking naming a table of a different restaurant is
\* rejected with 404 (a failed write of the customer record, 500, aside) and
\* changes no booking.
C37_ForeignTableNotFound ==
  [][/\ \A i \in 1..Len(bookings') : OwnTable(bookings'[i])
     /\ \A p \in Procs :
          /\ (CreateBegun(p) /\ ForeignTable(CreateOf(proc'[p])))
             => /\ Rejected(proc'[p])
                /\ proc'[p].resp.code = 404
                /\ bookings' = bookings
          /\ ( /\ UpdateStep(p)
               /\ proc[p] = Idle => Known(SteppedId(p))
               /\ "tableId" \in SteppedBody(p).has
               /\ ForeignTable(TableAsked(SteppedBody(p), LoadedBy(p))) )
             => /\ bookings' = bookings
                /\ ~UpdateAdmitted(p)
                /\ (proc'[p].pc = "done" /\ proc'[p].resp.code # 500)
                   => proc'[p].resp.code = 404]_vars

\* C37 as amended (the table lookup follows other checks): every booking's
\* tableId refers to a table of the booking's own restaurantId; a create or
\* an update of an existing booking naming a table of a different restaurant
\* is rejected and changes no booking; the rejection is the 404 when the
\* request passes the checks made before the table is looked up (create:
\* required fields, email, party size range, past date, horizon, closed day,
\* opening hours; update: booking not cancelled, customer fields and their
\* write, date and time, party size range), and the 400 of the first of
\* those checks that fails otherwise.
C37_ForeignTableRejected ==
  [][/\ \A i \in 1..Len(bookings') : OwnTable(bookings'[i])
     /\ \A p \in Procs :
          /\ (CreateBegun(p) /\ ForeignTable(CreateOf(proc'[p])))
             => /\ Rejected(proc'[p])
                /\ bookings' = bookings
                /\ proc'[p].resp.code =
                     IF /\ WellFormedCreate(CreateOf(proc'[p]))
                        /\ \A k \in 1..5 : ~RuleViolated(k, CreateOf(proc'[p]))
                     THEN 404 ELSE 400
          /\ ( /\ UpdateStep(p)
               /\ proc[p] = Idle => Known(SteppedId(p))
               /\ "tableId" \in SteppedBody(p).has
               /\ ForeignTable(TableAsked(SteppedBody(p), LoadedBy(p))) )
             => /\ bookings' = bookings
                /\ ~UpdateAdmitted(p)
                /\ (proc'[p].pc = "done" /\ proc'[p].resp.code # 500)
                   => proc'[p].resp.code =
                        IF BeforeTablePass(SteppedBody(p), LoadedBy(p))
                        THEN 404 ELSE 400]_vars

\* an update of a booking of restaurant 1 to table 4 of restaurant 2 has been
\* rejected with 404, and the booking is on a table of restaurant 1
C37_Witness ==
  \E p \in Procs :
    /\ proc[p].pc = "done"
    /\ proc[p].op = "PUT"
    /\ proc[p].req.body.tableId = 4
    /\ proc[p].resp.code = 404
    /\ proc[p].resp.error = "Table not found"
    /\ \E i \in BookingIds :
         /\ bookings[i].id = proc[p].req.id
         /\ bookings[i].restaurantId = 1
         /\ OwnTable(bookings[i])
-----------------------------------------------------------------------------
(* What an update (PUT) never writes *)

\* C38 (update never touches identity or status): no step of an update
\* (PUT), successful or rejected, changes a booking's status, restaurantId or
\* customerId, adds or removes a booking, or changes any booking other than
\* the one addressed by the id in the path.
C38_UpdateKeepsIdentityAndStatus ==
  [][\A p \in Procs :
       UpdateStep(p)
       => /\ Len(bookings') = Len(bookings)
          /\ \A i \in BookingIds :
               /\ bookings'[i].id = bookings[i].id
               /\ bookings'[i].status = bookings[i].status
               /\ bookings'[i].restaurantId = bookings[i].restaurantId
               /\ bookings'[i].customerId = bookings[i].customerId
               /\ bookings[i].id # SteppedId(p) => bookings'[i] = bookings[i]]_vars

\* an update has moved a completed booking to another table: the booking is
\* on the new table, still completed, and there is a second booking
C38_Witness ==
  \E p \in Procs :
    /\ proc[p].pc = "done"
    /\ proc[p].op = "PUT"
    /\ proc[p].resp.code = 200
    /\ "tableId" \in proc[p].req.body.has
    /\ \E i, j \in BookingIds :
         /\ i # j
         /\ bookings[i].id = proc[p].req.id
         /\ bookings[i].tableId = proc[p].req.body.tableId
         /\ bookings[i].status = "completed"
-----------------------------------------------------------------------------
(* The not-found rejection of the bulk operations *)

\* the bulk request ended with the 404 "Bookings not found"
NotFoundAnswered(r) ==
  /\ r.pc = "done"
  /\ r.resp.code = 404
  /\ r.resp.error = "Bookings not found"

\* C39 (bulk not-found is exact): a bulk PATCH or bulk DELETE with a status
\* the API knows returns the 404 "Bookings not found" if and only if at least
\* one requested id has no booking record, and the ids it lists are exactly
\* the requested ids without a record; a request whose ids all exist but
\* contain a repeated id is not rejected as not found.
C39_NotFoundExact ==
  [][\A p \in Procs :
       (Begun(p) /\ WellFormedBulk(proc'[p]) /\ TargetIds(proc'[p]) # {})
       => /\ NotFoundAnswered(proc'[p]) <=> UnknownIds(proc'[p]) # {}
          /\ NotFoundAnswered(proc'[p])
             => proc'[p].resp.ids = UnknownIds(proc'[p])]_vars

====
